---- MODULE Spec2Model ----
(***************************************************************************)
(* fdbdir: the interactive / batch explorer of the FoundationDB directory  *)
(* layer (src/src/main.rs, src/src/repl.rs, src/src/util.rs).              *)
(*                                                                         *)
(* Conventions.  A Rust String / &str / Vec<u8> is the sequence of its     *)
(* UTF-8 bytes (numbers 0..255); Str(<<"c","d">>) writes one down.  A path *)
(* (Vec<String>) is a sequence of such strings.                            *)
(***************************************************************************)
EXTENDS Integers, Sequences, FiniteSets, TLC

VARIABLES
  pc,          \* run_repl: "Prompting" (in rl.readline), "Stopped" (loop left by break),
               \*   "Failed" (returned Err), "Panicked"; "Off" when no REPL runs
  cwd,         \* run_repl: `cwd`, the main loop's current path
  cwd_shared,  \* run_repl: `cwd_shared`, the copy the completion hook reads
  line,        \* what rl.readline last returned, or the line last handed to the hook
  chk,         \* cd: `new_path` and the outcome of its existence check; NoCheck otherwise
  call,        \* ls, scan: the arguments ls_path / scan_path were called with
  ran,         \* ls, scan: how db.run ended, how often it executed the closure, and
               \*   how many pairs the streams yielded
  out,         \* what the last step printed (or the hook returned)
  key,         \* strinc: the Vec<u8> it is called with
  ret,         \* strinc: the Vec<u8> it returned
  called,      \* strinc: whether the call has returned
  hooks,       \* the calls of ReplHelper::complete that have not returned: where each
               \*   is, the line it was given, its clone of the shared path, its query
  mutex,       \* who holds the Mutex around cwd_shared: "free", "hook" or "main"
  cmds         \* the command arms of run_repl that have not finished: where each is

replVars == <<pc, cwd, cwd_shared, line, chk, call, ran, out>>
strincVars == <<key, ret, called>>
sessVars == <<hooks, mutex, cmds>>
vars == <<pc, cwd, cwd_shared, line, chk, call, ran, out, key, ret, called, hooks, mutex, cmds>>

\* no completion call and no command in flight, the mutex free
SessIdle == hooks = <<>> /\ mutex = "free" /\ cmds = <<>>

\* ------------------------------------------------------------------ bounds
\* longest key handed to strinc in SpecStrinc
MaxKeyLen == 3
\* longest text handed to parse_path in SpecParse
MaxTextLen == 5
\* longest literal text built from LitChars in SpecLiteral
MaxLitLen == 4
\* longest byte string built from EncBytes in SpecEncode
MaxBytesLen == 2
\* most argument tokens of a scan command in SpecScanArgs
MaxToks == 3
\* most items of a tuple built in SpecElement
MaxItems == 2
\* most segments of a path built in SpecPath
MaxSegs == 3

\* ------------------------------------------------------- strings and bytes
\* The printable ASCII characters, code 32 (space) to 126 (tilde), in order; code 96
\* (the grave accent) is a placeholder, no text of the model uses it.
Printable ==
  << " ", "!", "\"", "#", "$", "%", "&", "'", "(", ")", "*", "+", ",", "-", ".", "/",
     "0", "1", "2", "3", "4", "5", "6", "7", "8", "9", ":", ";", "<", "=", ">", "?",
     "@", "A", "B", "C", "D", "E", "F", "G", "H", "I", "J", "K", "L", "M", "N", "O",
     "P", "Q", "R", "S", "T", "U", "V", "W", "X", "Y", "Z", "[", "\\", "]", "^", "_",
     "<grave>", "a", "b", "c", "d", "e", "f", "g", "h", "i", "j", "k", "l", "m", "n", "o",
     "p", "q", "r", "s", "t", "u", "v", "w", "x", "y", "z", "{", "|", "}", "~" >>

\* the byte of a printable ASCII character
Ord(c) == 31 + (CHOOSE i \in 1..95 : Printable[i] = c)

\* a string literal, written as a tuple of characters
Str(t) == [i \in 1..Len(t) |-> Ord(t[i])]

\* F applied to e: `let x = e;` followed by the code that uses x
With(e, F(_)) == F(e)

\* all sequences over alphabet A of length at most n
SeqsUpTo(A, n) == UNION {[1..k -> A] : k \in 0..n}

\* a < b in the byte-wise lexicographic order of [u8] (the order of FoundationDB keys)
RECURSIVE LexLess(_, _)
LexLess(a, b) ==
  IF b = <<>> THEN FALSE
  ELSE IF a = <<>> THEN TRUE
  ELSE IF Head(a) # Head(b) THEN Head(a) < Head(b)
  ELSE LexLess(Tail(a), Tail(b))

LexLeq(a, b) == a = b \/ LexLess(a, b)

\* p is a prefix of s (slice::starts_with)
StartsWith(s, p) == Len(p) <= Len(s) /\ SubSeq(s, 1, Len(p)) = p

\* str::trim: the whitespace of ASCII text (tab, LF, VT, FF, CR, space)
IsWs(b) == b \in {9, 10, 11, 12, 13, 32}

RECURSIVE trim_start(_)
trim_start(s) == IF s # <<>> /\ IsWs(Head(s)) THEN trim_start(Tail(s)) ELSE s

RECURSIVE trim_end(_)
trim_end(s) ==
  IF s # <<>> /\ IsWs(s[Len(s)]) THEN trim_end(SubSeq(s, 1, Len(s) - 1)) ELSE s

trim(s) == trim_end(trim_start(s))

\* the strings of seq joined by sep (slice::join)
RECURSIVE join(_, _)
join(seq, sep) ==
  IF seq = <<>> THEN <<>>
  ELSE IF Len(seq) = 1 THEN seq[1]
  ELSE seq[1] \o sep \o join(Tail(seq), sep)

\* str::split(ch): the pieces of s between occurrences of ch, empty pieces included
RECURSIVE splitOn(_, _, _)
splitOn(s, ch, piece) ==
  IF s = <<>> THEN <<piece>>
  ELSE IF Head(s) = ch THEN <<piece>> \o splitOn(Tail(s), ch, <<>>)
  ELSE splitOn(Tail(s), ch, Append(piece, Head(s)))

\* str::trim_start_matches(ch)
RECURSIVE trim_start_matches(_, _)
trim_start_matches(s, ch) ==
  IF s # <<>> /\ Head(s) = ch THEN trim_start_matches(Tail(s), ch) ELSE s

NonEmpty(p) == p # <<>>

\* a slip: parse_path without the filter that drops the empty pieces
parse_path_keeps_empty(s) ==
  With(trim(s), LAMBDA trimmed :
    IF trimmed = Str(<<"/">>) \/ trimmed = <<>> THEN <<>>
    ELSE splitOn(trim_start_matches(trimmed, Ord("/")), Ord("/"), <<>>))

\* util.rs parse_path
parse_path(s) ==
  With(trim(s), LAMBDA trimmed :
    IF trimmed = Str(<<"/">>) \/ trimmed = <<>> THEN <<>>
    ELSE SelectSeq(splitOn(trim_start_matches(trimmed, Ord("/")), Ord("/"), <<>>), NonEmpty))

\* a slip: the segments joined without the leading `/`
display_path_bare(path) == join(path, Str(<<"/">>))

\* util.rs display_path
display_path(path) ==
  IF path = <<>> THEN Str(<<"/">>)
  ELSE Str(<<"/">>) \o join(path, Str(<<"/">>))

\* Vec::pop, for its effect on the vector
pop(v) == IF v = <<>> THEN v ELSE SubSeq(v, 1, Len(v) - 1)

\* ------------------------------------------------------ shell_words::split
\* The tokenizer run_repl and the completion hook call (crate shell_words): POSIX
\* shell word splitting with quotes, backslash escapes and # comments.  The result
\* is [ok |-> TRUE, words |-> ...], or ok = FALSE for its ParseError (an unclosed
\* quote).
\* one character c read with the tokenizer at st = [state, word, words]
split_char(st, c) ==
  CASE st.state = "Delimiter" ->
         IF c = Ord("'") THEN [st EXCEPT !.state = "SingleQuoted"]
         ELSE IF c = Ord("\"") THEN [st EXCEPT !.state = "DoubleQuoted"]
         ELSE IF c = Ord("\\") THEN [st EXCEPT !.state = "Backslash"]
         ELSE IF c \in {9, 32, 10} THEN st
         ELSE IF c = Ord("#") THEN [st EXCEPT !.state = "Comment"]
         ELSE [st EXCEPT !.state = "Unquoted", !.word = Append(st.word, c)]
    [] st.state = "Backslash" ->
         IF c = 10 THEN [st EXCEPT !.state = "Delimiter"]
         ELSE [st EXCEPT !.state = "Unquoted", !.word = Append(st.word, c)]
    [] st.state = "Unquoted" ->
         IF c = Ord("'") THEN [st EXCEPT !.state = "SingleQuoted"]
         ELSE IF c = Ord("\"") THEN [st EXCEPT !.state = "DoubleQuoted"]
         ELSE IF c = Ord("\\") THEN [st EXCEPT !.state = "UnquotedBackslash"]
         ELSE IF c \in {9, 32, 10}
              THEN [state |-> "Delimiter", word |-> <<>>, words |-> Append(st.words, st.word)]
         ELSE [st EXCEPT !.word = Append(st.word, c)]
    [] st.state = "UnquotedBackslash" ->
         IF c = 10 THEN [st EXCEPT !.state = "Unquoted"]
         ELSE [st EXCEPT !.state = "Unquoted", !.word = Append(st.word, c)]
    [] st.state = "SingleQuoted" ->
         IF c = Ord("'") THEN [st EXCEPT !.state = "Unquoted"]
         ELSE [st EXCEPT !.word = Append(st.word, c)]
    [] st.state = "DoubleQuoted" ->
         IF c = Ord("\"") THEN [st EXCEPT !.state = "Unquoted"]
         ELSE IF c = Ord("\\") THEN [st EXCEPT !.state = "DoubleQuotedBackslash"]
         ELSE [st EXCEPT !.word = Append(st.word, c)]
    [] st.state = "DoubleQuotedBackslash" ->
         IF c = 10 THEN [st EXCEPT !.state = "DoubleQuoted"]
         ELSE IF c \in {Ord("$"), 96, Ord("\""), Ord("\\")}
              THEN [st EXCEPT !.state = "DoubleQuoted", !.word = Append(st.word, c)]
         ELSE [st EXCEPT !.state = "DoubleQuoted",
                         !.word = Append(Append(st.word, Ord("\\")), c)]
    [] OTHER -> \* "Comment"
         IF c = 10 THEN [st EXCEPT !.state = "Delimiter"] ELSE st

\* the end of the input met with the tokenizer at st
split_end(st) ==
  CASE st.state \in {"Delimiter", "Comment"} -> [ok |-> TRUE, words |-> st.words]
    [] st.state \in {"Backslash", "UnquotedBackslash"} ->
         [ok |-> TRUE, words |-> Append(st.words, Append(st.word, Ord("\\")))]
    [] st.state = "Unquoted" -> [ok |-> TRUE, words |-> Append(st.words, st.word)]
    [] OTHER -> [ok |-> FALSE, words |-> <<>>]

\* the characters s[lo..hi] read one after the other, the first half of the run
\* before the second
RECURSIVE split_chars(_, _, _, _)
split_chars(s, lo, hi, st) ==
  IF lo > hi THEN st
  ELSE IF lo = hi THEN split_char(st, s[lo])
  ELSE CHOOSE after \in {split_chars(s, ((lo + hi) \div 2) + 1, hi, half) :
                           half \in {split_chars(s, lo, (lo + hi) \div 2, st)}} : TRUE

splitWords(s, state, word, words) ==
  split_end(split_chars(s, 1, Len(s), [state |-> state, word |-> word, words |-> words]))

\* `shell_words::split(line).unwrap_or_else(|_| vec![line.to_string()])`
split_or_whole(l) ==
  With(splitWords(l, "Delimiter", <<>>, <<>>), LAMBDA r :
    IF r.ok THEN r.words ELSE <<l>>)

\* ------------------------------------------------------------ rendering
\* decimal text of a non-negative integer (format!("{i}"))
RECURSIVE Dec(_)
Dec(n) == IF n < 10 THEN <<48 + n>> ELSE Append(Dec(n \div 10), 48 + (n % 10))

\* a slip: {:02X} for {:02x}
HexDigitUpper(d) == IF d < 10 THEN 48 + d ELSE 55 + d

\* one lowercase hex digit
HexDigit(d) == IF d < 10 THEN 48 + d ELSE 87 + d

\* u8::is_ascii_alphanumeric
is_ascii_alphanumeric(b) == b \in 48..57 \/ b \in 65..90 \/ b \in 97..122

\* a slip: format_bytes without the arm that doubles a backslash
format_byte_hex_backslash(b) ==
  IF is_ascii_alphanumeric(b) \/ b = Ord("-") \/ b = Ord("_") THEN <<b>>
  ELSE <<Ord("\\"), Ord("x"), HexDigit(b \div 16), HexDigit(b % 16)>>

\* a slip: a backslash written as itself, like a letter
format_byte_bare_backslash(b) ==
  IF is_ascii_alphanumeric(b) \/ b = Ord("-") \/ b = Ord("_") \/ b = Ord("\\") THEN <<b>>
  ELSE <<Ord("\\"), Ord("x"), HexDigit(b \div 16), HexDigit(b % 16)>>

\* util.rs format_bytes, one byte of the loop body
format_byte(b) ==
  IF b = Ord("\\") THEN Str(<<"\\", "\\">>)
  ELSE IF is_ascii_alphanumeric(b) \/ b = Ord("-") \/ b = Ord("_") THEN <<b>>
  ELSE <<Ord("\\"), Ord("x"), HexDigit(b \div 16), HexDigit(b % 16)>>

\* util.rs format_bytes: MAX source bytes, then the ellipsis (U+2026 in UTF-8)
MAX == 64
Ellipsis == <<226, 128, 166>>

\* what the loop body pushes for b[lo..hi], the run taken as two halves
RECURSIVE format_bytes_between(_, _, _)
format_bytes_between(b, lo, hi) ==
  IF lo > hi THEN <<>>
  ELSE IF lo = hi THEN format_byte(b[lo])
  ELSE format_bytes_between(b, lo, (lo + hi) \div 2)
         \o format_bytes_between(b, ((lo + hi) \div 2) + 1, hi)

\* the loop from byte idx on: the bytes before index MAX, then the ellipsis and
\* the break when there is a byte at index MAX
format_bytes_from(b, idx) ==
  format_bytes_between(b, idx, IF Len(b) > MAX THEN MAX ELSE Len(b))
    \o (IF Len(b) > MAX /\ idx <= MAX + 1 THEN Ellipsis ELSE <<>>)

format_bytes(b) == Str(<<"b", "\"">>) \o format_bytes_from(b, 1) \o Str(<<"\"">>)

\* std::str::from_utf8(b).is_ok(): well-formed UTF-8 (Unicode table 3-7)
Cont(x) == x \in 128..191
RECURSIVE Utf8Valid(_)
Utf8Valid(b) ==
  IF b = <<>> THEN TRUE
  ELSE With(Len(b), LAMBDA n : With(b[1], LAMBDA h :
    IF h < 128 THEN Utf8Valid(Tail(b))
    ELSE IF h \in 194..223 THEN n >= 2 /\ Cont(b[2]) /\ Utf8Valid(SubSeq(b, 3, n))
    ELSE IF h \in 224..239
      THEN /\ n >= 3 /\ Cont(b[2]) /\ Cont(b[3])
           /\ (h = 224 => b[2] >= 160)
           /\ (h = 237 => b[2] <= 159)
           /\ Utf8Valid(SubSeq(b, 4, n))
    ELSE IF h \in 240..244
      THEN /\ n >= 4 /\ Cont(b[2]) /\ Cont(b[3]) /\ Cont(b[4])
           /\ (h = 240 => b[2] >= 144)
           /\ (h = 244 => b[2] <= 143)
           /\ Utf8Valid(SubSeq(b, 5, n))
    ELSE FALSE))

\* whether valid UTF-8 text holds a char with char::is_control (U+0000..U+001F,
\* U+007F, U+0080..U+009F) other than \n, \r, \t
HasOtherControl(b) ==
  \E i \in 1..Len(b) :
     \/ (b[i] < 32 /\ b[i] \notin {9, 10, 13})
     \/ b[i] = 127
     \/ (b[i] = 194 /\ i < Len(b) /\ b[i + 1] \in 128..159)

\* util.rs try_utf8_or_bytes
try_utf8_or_bytes(b) ==
  IF Utf8Valid(b) /\ ~HasOtherControl(b)
  THEN Str(<<"\"">>) \o b \o Str(<<"\"">>)
  ELSE format_bytes(b)

\* {i} of an i64: a minus sign before the digits of a negative number
display_int(v) == IF v < 0 THEN <<Ord("-")>> \o Dec(0 - v) ELSE Dec(v)

\* a slip: the items of a tuple joined by "," for ", "
RECURSIVE format_element_tight(_)
format_element_tight(el) ==
  CASE el.tag = "Nil" -> Str(<<"n", "i", "l">>)
    [] el.tag = "String" -> Str(<<"\"">>) \o el.v \o Str(<<"\"">>)
    [] el.tag = "Tuple" ->
         Str(<<"(">>)
           \o join([i \in 1..Len(el.items) |-> format_element_tight(el.items[i])], Str(<<",">>))
           \o Str(<<")">>)
    [] el.tag = "Int" -> display_int(el.v)
    [] OTHER ->
         IF el.v THEN Str(<<"t", "r", "u", "e">>) ELSE Str(<<"f", "a", "l", "s", "e">>)

\* util.rs format_element, for the Element variants the model's database holds:
\* [tag |-> "Nil"], [tag |-> "Bool", v], [tag |-> "Int", v],
\* [tag |-> "String", v], [tag |-> "Tuple", items]
RECURSIVE format_element(_)
format_element(el) ==
  CASE el.tag = "Nil" -> Str(<<"n", "i", "l">>)
    [] el.tag = "String" -> Str(<<"\"">>) \o el.v \o Str(<<"\"">>)
    [] el.tag = "Tuple" ->
         Str(<<"(">>)
           \o join([i \in 1..Len(el.items) |-> format_element(el.items[i])], Str(<<",", " ">>))
           \o Str(<<")">>)
    [] el.tag = "Int" -> display_int(el.v)
    [] OTHER -> \* "Bool"
         IF el.v THEN Str(<<"t", "r", "u", "e">>) ELSE Str(<<"f", "a", "l", "s", "e">>)

\* ----------------------------------------------------- tuple layer (decode)
\* foundationdb::tuple, as Element::unpack_root and Subspace::unpack use it, for the
\* type codes the model's database holds: 0x00 nil, 0x02 string (0x00-terminated,
\* an embedded 0x00 escaped as 0x00 0xFF), 0x14 integer zero, 0x15 one-byte positive
\* integer, 0x26 false, 0x27 true.  Anything else the database holds (0x68, 0xFE,
\* 0xFF, a truncated element) is no type code or incomplete, and fails to decode.
\* Result: [ok, el, rest].
DecodeErr == [ok |-> FALSE, el |-> [tag |-> "Nil"], rest |-> <<>>]

\* the index of the 0x00 that terminates a string starting at index i, or 0
RECURSIVE StringEnd(_, _)
StringEnd(b, i) ==
  IF i > Len(b) THEN 0
  ELSE IF b[i] = 0
       THEN IF i < Len(b) /\ b[i + 1] = 255 THEN StringEnd(b, i + 2) ELSE i
       ELSE StringEnd(b, i + 1)

\* the content of an encoded string: each 0x00 0xFF stands for 0x00
RECURSIVE Unescape(_)
Unescape(b) ==
  IF b = <<>> THEN <<>>
  ELSE IF b[1] = 0 /\ Len(b) >= 2 THEN <<0>> \o Unescape(SubSeq(b, 3, Len(b)))
  ELSE <<b[1]>> \o Unescape(Tail(b))

DecodeOne(b) ==
  IF b = <<>> THEN DecodeErr
  ELSE With(b[1], LAMBDA c : With(Len(b), LAMBDA n :
    CASE c = 0 -> [ok |-> TRUE, el |-> [tag |-> "Nil"], rest |-> Tail(b)]
      [] c = 2 ->
           With(StringEnd(b, 2), LAMBDA e :
             IF e = 0 THEN DecodeErr
             ELSE With(Unescape(SubSeq(b, 2, e - 1)), LAMBDA txt :
               IF Utf8Valid(txt)
               THEN [ok |-> TRUE, el |-> [tag |-> "String", v |-> txt],
                     rest |-> SubSeq(b, e + 1, n)]
               ELSE DecodeErr))
      [] c = 20 -> [ok |-> TRUE, el |-> [tag |-> "Int", v |-> 0], rest |-> Tail(b)]
      [] c = 21 ->
           IF n < 2 THEN DecodeErr
           ELSE [ok |-> TRUE, el |-> [tag |-> "Int", v |-> b[2]], rest |-> SubSeq(b, 3, n)]
      [] c = 38 -> [ok |-> TRUE, el |-> [tag |-> "Bool", v |-> FALSE], rest |-> Tail(b)]
      [] c = 39 -> [ok |-> TRUE, el |-> [tag |-> "Bool", v |-> TRUE], rest |-> Tail(b)]
      [] OTHER -> DecodeErr))

\* the elements of b in order: [ok, items]
RECURSIVE DecodeAll(_)
DecodeAll(b) ==
  IF b = <<>> THEN [ok |-> TRUE, items |-> <<>>]
  ELSE With(DecodeOne(b), LAMBDA d :
    IF ~d.ok THEN [ok |-> FALSE, items |-> <<>>]
    ELSE With(DecodeAll(d.rest), LAMBDA r :
      IF r.ok THEN [ok |-> TRUE, items |-> <<d.el>> \o r.items]
      ELSE [ok |-> FALSE, items |-> <<>>]))

\* Element::unpack_root: one element decodes to itself, several (or none) to a Tuple
unpack_root(b) ==
  With(DecodeAll(b), LAMBDA r :
    IF ~r.ok THEN [ok |-> FALSE, el |-> [tag |-> "Nil"]]
    ELSE IF Len(r.items) = 1 THEN [ok |-> TRUE, el |-> r.items[1]]
    ELSE [ok |-> TRUE, el |-> [tag |-> "Tuple", items |-> r.items]])

\* dir.unpack::<Element>(key): the key without the directory's prefix, decoded
dir_unpack(prefix, k) ==
  IF StartsWith(k, prefix) THEN unpack_root(SubSeq(k, Len(prefix) + 1, Len(k)))
  ELSE [ok |-> FALSE, el |-> [tag |-> "Nil"]]

\* ---------------------------------------------------------- the database
\* The directory tree and the key-value pairs the commands run against: the
\* directories with their allocated prefixes, and the pairs of the key space.
\*   /app      4 pairs: keys nil, a truncated integer (does not decode), 7, true
\*   /app/foo  1 pair:  ("x", 1) => 42
\*   /apple    no pairs
\*   /big      SAMPLE + 1 pairs
\*   /full     SAMPLE pairs
SAMPLE == 50

app == Str(<<"a", "p", "p">>)
foo == Str(<<"f", "o", "o">>)
apple == Str(<<"a", "p", "p", "l", "e">>)
big == Str(<<"b", "i", "g">>)
full == Str(<<"f", "u", "l", "l">>)

DirTable ==
  { [path |-> <<app>>,      prefix |-> <<21, 1>>],
    [path |-> <<app, foo>>, prefix |-> <<21, 2>>],
    [path |-> <<apple>>,    prefix |-> <<21, 5>>],
    [path |-> <<big>>,      prefix |-> <<21, 3>>],
    [path |-> <<full>>,     prefix |-> <<21, 4>>] }

KVs ==
  { [key |-> <<21, 1, 0>>,     value |-> <<21, 42>>],
    [key |-> <<21, 1, 21>>,    value |-> Str(<<"h", "i">>)],
    [key |-> <<21, 1, 21, 7>>, value |-> <<255>>],
    [key |-> <<21, 1, 39>>,    value |-> <<38>>],
    [key |-> <<21, 2, 2, 120, 0, 21, 1>>, value |-> <<21, 42>>] }
  \cup { [key |-> <<21, 3, 21, i>>, value |-> <<21, i>>] : i \in 1..(SAMPLE + 1) }
  \cup { [key |-> <<21, 4, 21, i>>, value |-> <<20>>] : i \in 1..SAMPLE }

\* the members of a set of byte strings in ascending order
RECURSIVE SortBytes(_)
SortBytes(S) ==
  IF S = {} THEN <<>>
  ELSE With(CHOOSE x \in S : \A y \in S : LexLeq(x, y), LAMBDA m :
         <<m>> \o SortBytes(S \ {m}))

\* the pairs of the database in key order (keys are unique)
RankOf == [kv \in KVs |-> Cardinality({o \in KVs : LexLess(o.key, kv.key)})]
SortedKVs == [i \in 1..Cardinality(KVs) |-> CHOOSE kv \in KVs : RankOf[kv] = i - 1]

\* DirectoryLayer::exists (the root always exists)
dl_exists(path) == path = <<>> \/ \E d \in DirTable : d.path = path

\* DirectoryLayer::list on an existing directory: the names of its children
dl_list(path) ==
  SortBytes({ d.path[Len(d.path)] :
              d \in {e \in DirTable : Len(e.path) = Len(path) + 1
                                      /\ SubSeq(e.path, 1, Len(path)) = path} })

\* the prefix of the directory util.rs dir_for_path opens (dir.bytes())
dir_bytes(path) == (CHOOSE d \in DirTable : d.path = path).prefix

\* dir.range(): the keys of the directory's subspace
dir_range(path) ==
  [begin |-> Append(dir_bytes(path), 0), end |-> Append(dir_bytes(path), 255)]

InRange(k, r) == LexLeq(r.begin, k) /\ LexLess(k, r.end)

\* trx.get_ranges_keyvalues(opt, true): the pairs with begin <= key < end in key
\* order, at most opt.limit of them.  opt.limit = Some(n) reaches
\* fdb_transaction_get_range as the number n, where 0 stands for "no limit".
get_ranges_keyvalues(r, limit) ==
  With(SelectSeq(SortedKVs, LAMBDA kv : InRange(kv.key, r)), LAMBDA all :
    IF limit = 0 \/ limit >= Len(all) THEN all ELSE SubSeq(all, 1, limit))

\* ----------------------------------------------------------------- strinc
\* util.rs strinc, the loop `for i in (0..key.len()).rev()` from index i
\* (1-based here) downward.  A u8 holds 0..255; `key[i] += 1` is reached only
\* when key[i] != 0xff.
RECURSIVE strincFrom(_, _)
\* a slip that increments the last byte whatever it is
strincFromNoGuard(k, i) ==
  IF i = 0 THEN <<>>
  ELSE Append(SubSeq(k, 1, i - 1), (k[i] + 1) % 256)

\* a slip that leaves the bytes after the incremented one in place
strincFromNoTruncate(k, i) ==
  IF i = 0 THEN <<>>
  ELSE IF k[i] # 255
       THEN [k EXCEPT ![i] = k[i] + 1]
       ELSE strincFrom(k, i - 1)

strincFrom(k, i) ==
  IF i = 0 THEN <<>>
  ELSE IF k[i] # 255
       THEN Append(SubSeq(k, 1, i - 1), k[i] + 1)
       ELSE strincFrom(k, i - 1)

\* a slip that scans from the first byte forward instead of from the last backward
RECURSIVE strincFront(_, _)
strincFront(k, i) ==
  IF i > Len(k) THEN <<>>
  ELSE IF k[i] # 255
       THEN Append(SubSeq(k, 1, i - 1), k[i] + 1)
       ELSE strincFront(k, i + 1)

strincForward(k) == strincFront(k, 1)

strinc(k) == strincFrom(k, Len(k))

\* ------------------------------------------------------------ ls and scan
\* A backend error that can strike one execution of a db.run closure: while
\* awaiting dl.list ("list"), dir_for_path ("open"), or stream.try_next after k
\* pairs were yielded ("stream").  kind "retry" is an error db.run retries (it
\* runs the closure again), "fatal" one it returns.
MaxRetries == 1
MaxFaultRow == 2

NoFault == [at |-> "none", k |-> 0, kind |-> "none"]
FaultPoints ==
  {[at |-> "list", k |-> 0], [at |-> "open", k |-> 0]}
    \cup {[at |-> "stream", k |-> j] : j \in 0..MaxFaultRow}
Faults(kind) == {[at |-> p.at, k |-> p.k, kind |-> kind] : p \in FaultPoints}

\* what happens to the executions of one db.run: retried errors, then success or
\* a returned error
Plans ==
  UNION { {r \o <<l>> : r \in [1..n -> Faults("retry")],
                        l \in {NoFault} \cup Faults("fatal")} : n \in 0..MaxRetries }

Min(a, b) == IF a <= b THEN a ELSE b

None == [some |-> FALSE, v |-> <<>>]
Some(x) == [some |-> TRUE, v |-> x]

\* the value rendering of ls_path and scan_path (val_fmt)
val_fmt(val) ==
  With(unpack_root(val), LAMBDA u :
    IF u.ok THEN format_element(u.el) ELSE try_utf8_or_bytes(val))

\* a slip: key_fmt without the raw_keys test
key_fmt_always_decoded(prefix, k, raw_keys) ==
  With(dir_unpack(prefix, k), LAMBDA u :
    IF u.ok THEN format_element(u.el) ELSE format_bytes(k))

\* the key rendering of scan_path and, with raw_keys = FALSE, of ls_path (key_fmt)
key_fmt(prefix, k, raw_keys) ==
  IF raw_keys THEN format_bytes(k)
  ELSE With(dir_unpack(prefix, k), LAMBDA u :
         IF u.ok THEN format_element(u.el) ELSE format_bytes(k))

\* the row the loop prints for the i-th pair of the stream (`i` counts from 1)
print_row(stream, prefix, raw_keys, i) ==
  [t |-> "row", i |-> i,
   key |-> key_fmt(prefix, stream[i].key, raw_keys),
   val |-> val_fmt(stream[i].value)]

\* a slip: the `?` operator on the decode result, which ends the listing at the
\* first key that does not decode
print_rows_abort(stream, prefix, raw_keys, from, upto) ==
  With({j \in from..upto : ~raw_keys /\ ~dir_unpack(prefix, stream[j].key).ok}, LAMBDA bad :
  With(IF bad = {} THEN upto ELSE (CHOOSE j \in bad : \A o \in bad : j <= o) - 1, LAMBDA last :
    [j \in 1..(last - from + 1) |-> print_row(stream, prefix, raw_keys, from + j - 1)]))

\* the rows the loop prints for the pairs from..upto of the stream
print_rows(stream, prefix, raw_keys, from, upto) ==
  [j \in 1..(upto - from + 1) |-> print_row(stream, prefix, raw_keys, from + j - 1)]

\* One execution of the closure of util.rs ls_path, struck by fault f (or NoFault):
\* what it prints, how it ends ("ok", "retry", "fatal") and how many pairs the
\* stream yielded.
lsAttempt(path, f) ==
  With(<< [t |-> "path", s |-> display_path(path) \o Str(<<":">>)],
          [t |-> "Directories:"] >>, LAMBDA head :
  IF f.at = "list" THEN [out |-> head, res |-> f.kind, streamed |-> 0]
  ELSE IF ~dl_exists(path) THEN [out |-> head, res |-> "fatal", streamed |-> 0]
  ELSE
    With(dl_list(path), LAMBDA items :
    With(IF items = <<>> THEN << [t |-> "(none)"] >>
         ELSE [i \in 1..Len(items) |-> [t |-> "dir", s |-> items[i] \o Str(<<"/">>)]],
         LAMBDA dirs :
    IF path = <<>> THEN [out |-> head \o dirs, res |-> "ok", streamed |-> 0]
    ELSE
      With(head \o dirs \o << [t |-> "Keys (first SAMPLE):"] >>, LAMBDA out2 :
      IF f.at = "open" THEN [out |-> out2, res |-> f.kind, streamed |-> 0]
      ELSE
        With(get_ranges_keyvalues(dir_range(path), SAMPLE + 1), LAMBDA stream :
        With(Min(Len(stream), SAMPLE), LAMBDA shown :
        IF f.at = "stream" /\ f.k <= shown
        THEN [out |-> out2 \o print_rows(stream, dir_bytes(path), FALSE, 1, f.k),
              res |-> f.kind, streamed |-> f.k]
        ELSE [out |-> out2 \o print_rows(stream, dir_bytes(path), FALSE, 1, shown)
                        \o (IF Len(stream) = 0 THEN << [t |-> "(none)"] >> ELSE <<>>)
                        \o (IF Len(stream) > SAMPLE THEN << [t |-> "more"] >> ELSE <<>>),
              res |-> "ok", streamed |-> Len(stream)]))))))

\* a slip: the end of the directory's subspace for the successor of the start
scan_range_to_dir_end(dirPrefix, prefix) ==
  IF prefix.some
  THEN [begin |-> dirPrefix \o prefix.v, end |-> Append(dirPrefix, 255)]
  ELSE [begin |-> Append(dirPrefix, 0), end |-> Append(dirPrefix, 255)]

\* the range scan_path reads: the keys that start with the directory's prefix
\* followed by the given bytes, or the directory's whole subspace
scan_range(dirPrefix, prefix) ==
  IF prefix.some
  THEN With(dirPrefix \o prefix.v, LAMBDA start : [begin |-> start, end |-> strinc(start)])
  ELSE [begin |-> Append(dirPrefix, 0), end |-> Append(dirPrefix, 255)]

\* One execution of the closure of util.rs scan_path.
scanAttempt(path, limit, prefix, raw_keys, f) ==
  IF f.at = "open" THEN [out |-> <<>>, res |-> f.kind, streamed |-> 0]
  ELSE IF path = <<>> \/ ~dl_exists(path)
  THEN \* dl.open fails: the root cannot be opened, a missing directory neither
       [out |-> <<>>, res |-> "fatal", streamed |-> 0]
  ELSE
    With(get_ranges_keyvalues(scan_range(dir_bytes(path), prefix), limit), LAMBDA stream :
    With(<< [t |-> "scanning", path |-> display_path(path), limit |-> limit,
             prefix |-> IF prefix.some THEN Some(format_bytes(prefix.v)) ELSE None] >>,
         LAMBDA head :
    IF f.at = "stream" /\ f.k <= Len(stream)
    THEN [out |-> head \o print_rows(stream, dir_bytes(path), raw_keys, 1, f.k),
          res |-> f.kind, streamed |-> f.k]
    ELSE [out |-> head \o print_rows(stream, dir_bytes(path), raw_keys, 1, Len(stream)),
          res |-> "ok", streamed |-> Len(stream)]))

\* db.run around the closure: an execution that ends in a retryable error is
\* followed by another; what the executions printed adds up.
RECURSIVE ls_path(_, _)
ls_path(path, plan) ==
  With(lsAttempt(path, Head(plan)), LAMBDA a :
    IF a.res = "retry" /\ Len(plan) > 1
    THEN With(ls_path(path, Tail(plan)), LAMBDA r :
           [out |-> a.out \o r.out, res |-> r.res, runs |-> r.runs + 1,
            streamed |-> a.streamed + r.streamed])
    ELSE [out |-> a.out, res |-> a.res, runs |-> 1, streamed |-> a.streamed])

RECURSIVE scan_path(_, _, _, _, _)
scan_path(path, limit, prefix, raw_keys, plan) ==
  With(scanAttempt(path, limit, prefix, raw_keys, Head(plan)), LAMBDA a :
    IF a.res = "retry" /\ Len(plan) > 1
    THEN With(scan_path(path, limit, prefix, raw_keys, Tail(plan)), LAMBDA r :
           [out |-> a.out \o r.out, res |-> r.res, runs |-> r.runs + 1,
            streamed |-> a.streamed + r.streamed])
    ELSE [out |-> a.out, res |-> a.res, runs |-> 1, streamed |-> a.streamed])

\* ------------------------------------------------------ byte literals
\* a slip: hex_val without the 'A'..='F' arm
hex_val_lower_only(c) ==
  IF c \in 48..57 THEN c - 48
  ELSE IF c \in 97..102 THEN c - 97 + 10
  ELSE -1

\* util.rs hex_val: the value of a hex digit, or -1 for its Err
hex_val(c) ==
  IF c \in 48..57 THEN c - 48
  ELSE IF c \in 97..102 THEN c - 97 + 10
  ELSE IF c \in 65..70 THEN c - 65 + 10
  ELSE -1

\* a slip: every `\c` taken as the byte c, the n, r and t arms forgotten
escape_byte_verbatim(n) == n

\* util.rs parse_bytes_literal, the arms of `match n` other than x and X: the
\* byte pushed for `\n`
escape_byte(n) ==
  IF n = Ord("n") THEN 10
  ELSE IF n = Ord("r") THEN 13
  ELSE IF n = Ord("t") THEN 9
  ELSE IF n = Ord("\\") THEN Ord("\\")
  ELSE IF n = Ord("\"") THEN Ord("\"")
  ELSE n

\* util.rs parse_bytes_literal, the loop from index i (1-based) with `out` so far:
\* [ok, v]
\* one turn of the loop of parse_bytes_literal at index i: whether bytes[i] opens
\* an escape, whether the turn returns Err, how far i moves and the byte pushed
opens_escape(bytes, i) == bytes[i] = Ord("\\") /\ i + 1 <= Len(bytes)
opens_hex(bytes, i) ==
  opens_escape(bytes, i) /\ (bytes[i + 1] = Ord("x") \/ bytes[i + 1] = Ord("X"))
turn_fails(bytes, i) ==
  opens_hex(bytes, i)
    /\ (i + 3 > Len(bytes) \/ hex_val(bytes[i + 2]) < 0 \/ hex_val(bytes[i + 3]) < 0)
turn_width(bytes, i) ==
  IF opens_hex(bytes, i) THEN 4 ELSE IF opens_escape(bytes, i) THEN 2 ELSE 1
turn_byte(bytes, i) ==
  IF opens_hex(bytes, i) THEN hex_val(bytes[i + 2]) * 16 + hex_val(bytes[i + 3])
  ELSE IF opens_escape(bytes, i) THEN escape_byte(bytes[i + 1])
  ELSE bytes[i]

\* one turn of the loop on its variables st = [i, out, err]: nothing once the loop
\* has returned (Err, or i at the end of the text)
loop_turn(bytes, st) ==
  IF st.err \/ st.i > Len(bytes) THEN st
  ELSE IF turn_fails(bytes, st.i) THEN [st EXCEPT !.err = TRUE]
  ELSE [i |-> st.i + turn_width(bytes, st.i),
        out |-> Append(st.out, turn_byte(bytes, st.i)),
        err |-> FALSE]

\* n turns in a row, taken as two halves one after the other: the first half is
\* run to its end before the second starts
RECURSIVE loop_turns(_, _, _)
loop_turns(bytes, st, n) ==
  IF n = 0 THEN st
  ELSE IF n = 1 THEN loop_turn(bytes, st)
  ELSE CHOOSE after \in {loop_turns(bytes, half, n - (n \div 2)) :
                           half \in {loop_turns(bytes, st, n \div 2)}} : TRUE

\* the loop from index i with acc pushed so far; every turn moves i, so after
\* Len(bytes) turns it has returned
parse_bytes_from(bytes, i, acc) ==
  With(loop_turns(bytes, [i |-> i, out |-> acc, err |-> FALSE], Len(bytes)), LAMBDA st :
    IF st.err THEN [ok |-> FALSE, v |-> <<>>] ELSE [ok |-> TRUE, v |-> st.out])

parse_bytes_literal(t) == parse_bytes_from(t, 1, <<>>)

\* str::parse::<usize>: an optional +, then one or more decimal digits: [ok, v].
\* (A value above usize::MAX is refused too; that takes 20 digits, and the tokens
\* of the model, like the numbers of the model checker, stay below 10.)
RECURSIVE DigitsValue(_, _)
DigitsValue(d, acc) ==
  IF d = <<>> THEN acc ELSE DigitsValue(Tail(d), acc * 10 + (Head(d) - 48))

parse_usize(tok) ==
  With(IF tok # <<>> /\ Head(tok) = Ord("+") THEN Tail(tok) ELSE tok, LAMBDA d :
    IF d # <<>> /\ Len(d) < 10 /\ (\A i \in 1..Len(d) : d[i] \in 48..57)
    THEN [ok |-> TRUE, v |-> DigitsValue(d, 0)]
    ELSE [ok |-> FALSE, v |-> 0])

\* --------------------------------------------------------------- the REPL
\* the lines the user types at the prompt
Lines ==
  { Str(<<>>), Str(<<" ", " ">>),
    Str(<<"h","e","l","p">>), Str(<<" ","p","w","d"," ">>),
    Str(<<"e","x","i","t">>), Str(<<"q","u","i","t">>),
    Str(<<"b","o","g","u","s">>), Str(<<"p","w","d"," ","x">>),
    Str(<<"#">>), Str(<<"#"," ","l","s">>), Str(<<"'","'">>), Str(<<"c","d"," ","'","a">>),
    Str(<<"c","d">>), Str(<<"c","d"," ","/">>), Str(<<"c","d"," ",".",".">>),
    Str(<<"c","d"," ","a","p","p">>), Str(<<"c","d"," ","f","o","o">>),
    Str(<<"c","d"," ","/","a","p","p","/","f","o","o","/">>),
    Str(<<"c","d"," ","/","n","o","p","e">>), Str(<<"c","d"," ","b","i","g"," ","x">>),
    Str(<<"c","d"," ","/","f","u","l","l">>), Str(<<"c","d"," ",".">>),
    Str(<<"l","s">>), Str(<<"l","s"," ",".">>), Str(<<"l","s"," ",".",".">>),
    Str(<<"l","s"," ","/","a","p","p">>), Str(<<"l","s"," ","f","o","o">>),
    Str(<<"l","s"," ","/","n","o","p","e">>),
    Str(<<"s","c","a","n">>), Str(<<"s","c","a","n"," ","0">>),
    Str(<<"s","c","a","n"," ","1">>), Str(<<"d","u","m","p"," ","2">>),
    Str(<<"s","c","a","n"," ","-","-","r","a","w">>),
    Str(<<"s","c","a","n"," ","r","a","w"," ","1"," ","'","\\","x","1","5","'">>),
    Str(<<"s","c","a","n"," ","\\","x","1","5">>), Str(<<"s","c","a","n"," ","'","\\","x","z","z","'">>) }

\* the partial lines the completion hook is called with
CompLines ==
  { Str(<<>>), Str(<<"c">>), Str(<<"c","d"," ">>), Str(<<"c","d"," ","a","p">>),
    Str(<<"l","s"," ","/","a","p","p","/">>), Str(<<"s","c","a","n"," ","/","b">>),
    Str(<<"c","d"," ","a","p","p","/","f">>), Str(<<"p","w","d"," ","x">>),
    Str(<<"c","d"," ","/","n","o","p","e","/">>) }

NoCheck == [path |-> <<>>, res |-> "none"]
NoCall == [op |-> "none"]
NoRun == [res |-> "none", runs |-> 0, streamed |-> 0]

Parts(l) == split_or_whole(trim(l))

\* the line reaches the `match cmd.as_str()` of run_repl with one of these commands
Dispatches(l, names) == trim(l) # <<>> /\ Parts(l) # <<>> /\ Head(Parts(l)) \in names

LinesFor(names) == {l \in Lines : Dispatches(l, names)}
HelpLines == LinesFor({Str(<<"h","e","l","p">>)})
QuitLines == LinesFor({Str(<<"q","u","i","t">>), Str(<<"e","x","i","t">>)})
PwdLines == LinesFor({Str(<<"p","w","d">>)})
CdLines == LinesFor({Str(<<"c","d">>)})
LsLines == LinesFor({Str(<<"l","s">>)})
ScanLines == LinesFor({Str(<<"s","c","a","n">>), Str(<<"d","u","m","p">>)})
BlankLines == {l \in Lines : trim(l) = <<>>}
NoTokenLines == {l \in Lines : trim(l) # <<>> /\ Parts(l) = <<>>}

\* what the backend does to a command of the REPL: it answers at once, it answers
\* after one retried error, or it fails
ReplPlans ==
  { <<NoFault>>,
    <<[at |-> "stream", k |-> 1, kind |-> "retry"], NoFault>>,
    <<[at |-> "open", k |-> 0, kind |-> "fatal"]>> }

KnownCommands ==
  { Str(<<"h","e","l","p">>), Str(<<"q","u","i","t">>), Str(<<"e","x","i","t">>),
    Str(<<"p","w","d">>), Str(<<"c","d">>), Str(<<"l","s">>),
    Str(<<"s","c","a","n">>), Str(<<"d","u","m","p">>) }

UnknownLines ==
  {l \in Lines : trim(l) # <<>> /\ Parts(l) # <<>> /\ Head(Parts(l)) \notin KnownCommands}

Init ==
  /\ pc = "Prompting"
  /\ cwd = <<>>
  /\ cwd_shared = <<>>
  /\ line = [ev |-> "none"]
  /\ chk = NoCheck
  /\ call = NoCall
  /\ ran = NoRun
  /\ out = <<>>
  /\ key = <<>> /\ ret = <<>> /\ called = FALSE
  /\ SessIdle

\* a step of the loop that only prints: everything but pc and the printed text
\* is as it was
Frame ==
  /\ UNCHANGED <<cwd, cwd_shared, key, ret, called, hooks, mutex, cmds>>
  /\ chk' = NoCheck
  /\ call' = NoCall
  /\ ran' = NoRun

\* rl.readline returns Err(ReadlineError::Interrupted)
ReadInterrupted ==
  /\ pc = "Prompting"
  /\ line' = [ev |-> "interrupted"]
  /\ out' = << [t |-> "^C"] >>
  /\ pc' = "Prompting"
  /\ Frame

\* rl.readline returns Err(ReadlineError::Eof)
ReadEof ==
  /\ pc = "Prompting"
  /\ line' = [ev |-> "eof"]
  /\ out' = <<>>
  /\ pc' = "Stopped"
  /\ Frame

\* rl.readline returns any other error: run_repl returns it
ReadFailed ==
  /\ pc = "Prompting"
  /\ line' = [ev |-> "error"]
  /\ out' = <<>>
  /\ pc' = "Failed"
  /\ Frame

\* a line that is empty after trim
EmptyLine ==
  /\ pc = "Prompting"
  /\ \E l \in BlankLines : line' = [ev |-> "line", text |-> l]
  /\ out' = <<>>
  /\ pc' = "Prompting"
  /\ Frame

\* a non-empty line that shell_words::split turns into no token: parts.remove(0)
\* panics on the empty Vec
NoToken ==
  /\ pc = "Prompting"
  /\ \E l \in NoTokenLines : line' = [ev |-> "line", text |-> l]
  /\ out' = <<>>
  /\ pc' = "Panicked"
  /\ Frame

Help ==
  /\ pc = "Prompting"
  /\ \E l \in HelpLines : line' = [ev |-> "line", text |-> l]
  /\ out' = << [t |-> "help"] >>
  /\ pc' = "Prompting"
  /\ Frame

Quit ==
  /\ pc = "Prompting"
  /\ \E l \in QuitLines : line' = [ev |-> "line", text |-> l]
  /\ out' = <<>>
  /\ pc' = "Stopped"
  /\ Frame

Pwd ==
  /\ pc = "Prompting"
  /\ \E l \in PwdLines : line' = [ev |-> "line", text |-> l]
  /\ out' = << [t |-> "text", s |-> display_path(cwd)] >>
  /\ pc' = "Prompting"
  /\ Frame

Unknown ==
  /\ pc = "Prompting"
  /\ \E l \in UnknownLines :
       /\ line' = [ev |-> "line", text |-> l]
       /\ out' = << [t |-> "Unknown command", s |-> Head(Parts(l))] >>
  /\ pc' = "Prompting"
  /\ Frame

\* the `cd` arm: new_path from the first argument (default "/")
cd_new_path(parts, base) ==
  With(IF parts # <<>> THEN parts[1] ELSE Str(<<"/">>), LAMBDA target :
    IF target = Str(<<"/">>) THEN <<>>
    ELSE IF target = Str(<<".", ".">>) THEN pop(base)
    ELSE IF StartsWith(target, Str(<<"/">>)) THEN parse_path(target)
    ELSE base \o parse_path(target))

\* the `ls` arm: path from the optional first argument
ls_target_path(parts, base) ==
  IF parts = <<>> THEN base
  ELSE With(parts[1], LAMBDA q :
    IF q = Str(<<".">>) THEN base
    ELSE IF q = Str(<<".", ".">>) THEN pop(base)
    ELSE IF StartsWith(q, Str(<<"/">>)) THEN parse_path(q)
    ELSE base \o parse_path(q))

\* a slip: the loop body without the `prefix.is_none()` test, so that a later
\* literal replaces the prefix
scan_arg_prefix_overwrites(tok, a) ==
  IF tok \in {Str(<<"-","-","r","a","w">>), Str(<<"-","r">>), Str(<<"r","a","w">>)}
  THEN [a EXCEPT !.raw = TRUE]
  ELSE IF parse_usize(tok).ok
  THEN [a EXCEPT !.limit = parse_usize(tok).v]
  ELSE IF parse_bytes_literal(tok).ok
  THEN [a EXCEPT !.prefix = Some(parse_bytes_literal(tok).v)]
  ELSE a

\* the `scan` | `dump` arm: the body of `for tok in parts.iter()`, from (limit,
\* prefix, raw) so far
scan_arg(tok, a) ==
  IF tok \in {Str(<<"-","-","r","a","w">>), Str(<<"-","r">>), Str(<<"r","a","w">>)}
  THEN [a EXCEPT !.raw = TRUE]
  ELSE IF parse_usize(tok).ok
  THEN [a EXCEPT !.limit = parse_usize(tok).v]
  ELSE IF ~a.prefix.some /\ parse_bytes_literal(tok).ok
  THEN [a EXCEPT !.prefix = Some(parse_bytes_literal(tok).v)]
  ELSE a

\* the `scan` | `dump` arm: the loop over the argument tokens
RECURSIVE scan_args(_, _)
scan_args(toks, a) ==
  IF toks = <<>> THEN a ELSE scan_args(Tail(toks), scan_arg(Head(toks), a))

ErrorLine == [t |-> "error:"]

\* a slip: the `cd` arm assigns the candidate path without looking at the check
cd_commit_unchecked(cur, new_path, ok) == new_path

\* the `cd` arm after the check: `if ok { cwd = new_path; ... }`, else cwd stays
cd_commit(cur, new_path, ok) == IF ok THEN new_path ELSE cur

\* a slip: `ls` makes the directory it listed the current one
LsEntersListed ==
  /\ pc = "Prompting"
  /\ \E l \in LsLines, plan \in ReplPlans :
       /\ line' = [ev |-> "line", text |-> l]
       /\ \E path \in {ls_target_path(Tail(Parts(l)), cwd)} :
          \E r \in {ls_path(path, plan)} :
          /\ call' = [op |-> "ls", path |-> path]
          /\ ran' = [res |-> r.res, runs |-> r.runs, streamed |-> r.streamed]
          /\ out' = r.out \o (IF r.res = "ok" THEN <<>> ELSE <<ErrorLine>>)
          /\ cwd' = path
          /\ cwd_shared' = path
  /\ pc' = "Prompting"
  /\ chk' = NoCheck
  /\ UNCHANGED <<strincVars, sessVars>>

\* `cd`: the existence check in db.run either answers or fails (backendOk)
Cd ==
  /\ pc = "Prompting"
  /\ \E l \in CdLines, backendOk \in BOOLEAN :
       /\ line' = [ev |-> "line", text |-> l]
       /\ \E new_path \in {cd_new_path(Tail(Parts(l)), cwd)} :
          \E ok \in {backendOk /\ dl_exists(new_path)} :
          /\ chk' = [path |-> new_path,
                     res |-> IF ~backendOk THEN "err" ELSE IF ok THEN "true" ELSE "false"]
          /\ cwd' = cd_commit(cwd, new_path, ok)
          /\ cwd_shared' = cd_commit(cwd_shared, new_path, ok)
          /\ out' = (IF backendOk THEN <<>> ELSE <<ErrorLine>>)
                      \o (IF ok THEN <<>>
                          ELSE << [t |-> "No such directory", s |-> display_path(new_path)] >>)
  /\ pc' = "Prompting"
  /\ call' = NoCall
  /\ ran' = NoRun
  /\ UNCHANGED <<strincVars, sessVars>>

Ls ==
  /\ pc = "Prompting"
  /\ \E l \in LsLines, plan \in ReplPlans :
       /\ line' = [ev |-> "line", text |-> l]
       /\ \E path \in {ls_target_path(Tail(Parts(l)), cwd)} :
          \E r \in {ls_path(path, plan)} :
          /\ call' = [op |-> "ls", path |-> path]
          /\ ran' = [res |-> r.res, runs |-> r.runs, streamed |-> r.streamed]
          /\ out' = r.out \o (IF r.res = "ok" THEN <<>> ELSE <<ErrorLine>>)
  /\ pc' = "Prompting"
  /\ chk' = NoCheck
  /\ UNCHANGED <<cwd, cwd_shared>>
  /\ UNCHANGED <<strincVars, sessVars>>

Scan ==
  /\ pc = "Prompting"
  /\ \E l \in ScanLines, plan \in ReplPlans :
       /\ line' = [ev |-> "line", text |-> l]
       /\ \E a \in {scan_args(Tail(Parts(l)), [limit |-> 50, prefix |-> None, raw |-> FALSE])} :
          \E r \in {scan_path(cwd, a.limit, a.prefix, a.raw, plan)} :
          /\ call' = [op |-> "scan", path |-> cwd, limit |-> a.limit,
                      prefix |-> a.prefix, raw |-> a.raw]
          /\ ran' = [res |-> r.res, runs |-> r.runs, streamed |-> r.streamed]
          /\ out' = r.out \o (IF r.res = "ok" THEN <<>> ELSE <<ErrorLine>>)
  /\ pc' = "Prompting"
  /\ chk' = NoCheck
  /\ UNCHANGED <<cwd, cwd_shared>>
  /\ UNCHANGED <<strincVars, sessVars>>

\* ------------------------------------------------------ the completion hook
CompletionCommands ==
  << Str(<<"h","e","l","p">>), Str(<<"e","x","i","t">>), Str(<<"q","u","i","t">>),
     Str(<<"p","w","d">>), Str(<<"c","d">>), Str(<<"l","s">>), Str(<<"s","c","a","n">>) >>

EndsWith(s, ch) == s # <<>> /\ s[Len(s)] = ch

\* line.rfind(|c| c == ' ' || c == '\t').map(|i| i + 1).unwrap_or(0)
start_of_last_token(l) ==
  With({i \in 1..Len(l) : l[i] \in {32, 9}}, LAMBDA at :
    IF at = {} THEN 0 ELSE CHOOSE i \in at : \A j \in at : j <= i)

\* the db.run of the hook around dl.list(parent): the names, or its error (the
\* transaction failed, or the directory does not exist)
db_run_list(parent, backendOk) ==
  IF backendOk /\ dl_exists(parent) THEN [ok |-> TRUE, v |-> dl_list(parent)]
  ELSE [ok |-> FALSE, v |-> <<>>]

\* a slip: `?` on the result of the query, which hands the error to the line editor
items_or_error(res) == res

\* `match ... { Ok(v) => v, Err(_) => vec![] }`: the hook goes on with no names
items_or_empty(res) == [ok |-> TRUE, v |-> IF res.ok THEN res.v ELSE <<>>]

\* ReplHelper::complete on line l, with `shared` the current path behind the mutex
\* and backendOk telling whether db.run answers: [ok, start, pairs, asked, listed],
\* ok telling Ok((start, pairs)) from Err, asked the directory dl.list was called on
\* (None when it was not called) and listed how that query ended
complete(l, shared, backendOk) ==
  With(split_or_whole(l), LAMBDA parts :
  With(EndsWith(l, 32), LAMBDA is_space_term :
  IF Len(parts) = 0 \/ (~is_space_term /\ Len(parts) = 1)
  THEN With(trim_start(l), LAMBDA prefix :
       With(SelectSeq(CompletionCommands, LAMBDA cmd : StartsWith(cmd, prefix)), LAMBDA hits :
         [ok |-> TRUE, start |-> 0,
          pairs |-> [i \in 1..Len(hits) |-> [display |-> hits[i], replacement |-> hits[i]]],
          asked |-> None, listed |-> "none"]))
  ELSE IF parts[1] \in {Str(<<"c","d">>), Str(<<"l","s">>), Str(<<"s","c","a","n">>)}
  THEN With(IF is_space_term THEN <<>> ELSE parts[Len(parts)], LAMBDA token :
       With(StartsWith(token, Str(<<"/">>)), LAMBDA absolute :
       With(IF absolute THEN parse_path(token) ELSE shared \o parse_path(token),
            LAMBDA base_path :
       With(EndsWith(token, Ord("/")), LAMBDA add_slash :
       With(IF add_slash THEN base_path ELSE pop(base_path), LAMBDA parent :
       With(IF add_slash \/ base_path = <<>> THEN <<>> ELSE base_path[Len(base_path)],
            LAMBDA needle :
       With(db_run_list(parent, backendOk), LAMBDA res :
       With(items_or_empty(res), LAMBDA items :
       With(SelectSeq(items.v, LAMBDA name : needle = <<>> \/ StartsWith(name, needle)),
            LAMBDA hits :
       With(IF parent = <<>> THEN Str(<<"/">>)
            ELSE Str(<<"/">>) \o join(parent, Str(<<"/">>)) \o Str(<<"/">>), LAMBDA base :
         [ok |-> items.ok, start |-> start_of_last_token(l),
          pairs |-> [i \in 1..Len(hits) |->
                       [display |-> hits[i] \o Str(<<"/">>),
                        replacement |-> (IF absolute THEN base ELSE <<>>) \o hits[i]
                                          \o (IF add_slash THEN Str(<<"/">>) ELSE <<>>)]],
          asked |-> Some(parent),
          listed |-> IF res.ok THEN "ok" ELSE "err"]))))))))))
  ELSE [ok |-> TRUE, start |-> 0, pairs |-> <<>>, asked |-> None, listed |-> "none"]))

\* the line editor calls the hook while rl.readline waits for the line
Complete ==
  /\ pc = "Prompting"
  /\ \E l \in CompLines, backendOk \in BOOLEAN :
       /\ line' = [ev |-> "complete", text |-> l]
       /\ \E c \in {complete(l, cwd_shared, backendOk)} :
            out' = << [t |-> "candidates", ok |-> c.ok, start |-> c.start,
                       pairs |-> c.pairs, asked |-> c.asked, listed |-> c.listed] >>
  /\ pc' = "Prompting"
  /\ Frame

Next ==
  \/ ReadInterrupted \/ ReadEof \/ ReadFailed
  \/ EmptyLine \/ NoToken \/ Help \/ Quit \/ Pwd \/ Unknown
  \/ Cd \/ Ls \/ Scan
  \/ Complete

Spec == Init /\ [][Next]_vars

\* ---------------------------------------------------- claims about the REPL
IsCdStep(l) == l.ev = "line" /\ l.text \in CdLines

\* C1: a cd whose existence check returns false or whose query fails leaves both
\* copies of the current path as they were and prints a diagnostic; the current
\* path becomes the candidate path only when the check returned true.
C1_CdMovesOnlyAfterCheck ==
  [][ IsCdStep(line') =>
        /\ chk'.res \in {"true", "false", "err"}
        /\ chk'.res = "true" => cwd' = chk'.path /\ cwd_shared' = chk'.path
        /\ chk'.res # "true" =>
              /\ cwd' = cwd /\ cwd_shared' = cwd_shared
              /\ \E i \in 1..Len(out') : out'[i].t = "No such directory"
        /\ chk'.res = "err" => \E i \in 1..Len(out') : out'[i] = ErrorLine ]_vars

\* a failed cd (the candidate does not exist) typed in a directory other than the root
C1_Witness == chk.res = "false" /\ cwd = <<app>> /\ chk.path = <<Str(<<"n","o","p","e">>)>>

\* C2: only a cd step changes the current path; help, pwd, ls, scan / dump, an
\* unknown command, an empty line, an interrupt and the completion hook leave both
\* copies as they were, whether the command succeeds or fails.
C2_OnlyCdMoves ==
  [][ (cwd' # cwd \/ cwd_shared' # cwd_shared) => IsCdStep(line') /\ chk'.res = "true" ]_vars

\* a scan that failed, typed in a directory other than the root
C2_Witness == cwd = <<app, foo>> /\ call.op = "scan" /\ ran.res = "fatal"

\* C3 as stated: every input line leads back to Prompting, the loop stops only on
\* exit, quit or end of input, and no command ends the session abnormally.
C3_AsStated ==
  /\ line.ev = "line" =>
        IF line.text \in QuitLines THEN pc = "Stopped" ELSE pc = "Prompting"
  /\ pc = "Stopped" => line.ev = "eof" \/ (line.ev = "line" /\ line.text \in QuitLines)
  /\ pc # "Panicked"

\* C11: the completion hook never hands an error to the line editor: for every
\* line and every outcome of the list query (a failed transaction and a missing
\* directory included) it returns Ok, and when the query fails it returns no
\* candidate.
C11_HookNeverFails ==
  line.ev = "complete" =>
    /\ out[1].ok
    /\ out[1].listed = "err" => out[1].pairs = <<>>

\* the hook asked for the children of /nope, which does not exist
C11_Witness ==
  /\ line.ev = "complete" /\ out[1].listed = "err"
  /\ out[1].asked = Some(<<Str(<<"n","o","p","e">>)>>)

\* the token the hook completes: the last word of the line, or the empty token
\* when the line ends in a space
TokenOf(l) ==
  IF EndsWith(l, 32) \/ split_or_whole(l) = <<>> THEN <<>>
  ELSE split_or_whole(l)[Len(split_or_whole(l))]
\* the index of the last `/` of a token, 0 when it has none
LastSlash(tok) ==
  IF \E i \in 1..Len(tok) : tok[i] = 47
  THEN CHOOSE i \in 1..Len(tok) : tok[i] = 47 /\ \A j \in (i + 1)..Len(tok) : tok[j] # 47
  ELSE 0
\* the directory portion of a token (up to its last `/`) and its unfinished segment
DirPortion(tok) == SubSeq(tok, 1, LastSlash(tok))
LastSegment(tok) == SubSeq(tok, LastSlash(tok) + 1, Len(tok))
\* the directory the directory portion names
DirOfToken(tok, base) ==
  IF StartsWith(tok, <<47>>) THEN parse_path(DirPortion(tok))
  ELSE base \o parse_path(DirPortion(tok))

\* the path a token names: absolute when it starts with `/`, else under cur
TokenResolves(token, cur) ==
  IF StartsWith(token, Str(<<"/">>)) THEN parse_path(token) ELSE cur \o parse_path(token)

\* C27 as stated: the replacement of every path-completion candidate, put in the
\* place of the last token, is a token that resolves to the listed directory
\* followed by the candidate's name, also for relative tokens with a `/` and for
\* the empty token.
C27_AsStated ==
  (pc = "Prompting" /\ line.ev = "complete" /\ out # <<>> /\ out[1].asked.some) =>
    \A i \in 1..Len(out[1].pairs) :
       TokenResolves(out[1].pairs[i].replacement, cwd)
         = Append(out[1].asked.v,
                  SubSeq(out[1].pairs[i].display, 1, Len(out[1].pairs[i].display) - 1))

\* the line is empty or a single token with no space after it
TypingCommand(l) ==
  Len(split_or_whole(l)) = 0 \/ (Len(split_or_whole(l)) = 1 /\ ~EndsWith(l, 32))

\* C30 as stated: while the command name is being typed, the candidates are
\* exactly the commands the REPL dispatches (help, exit, quit, pwd, cd, ls, scan,
\* dump) whose name starts with the typed text, each its own replacement, put in
\* from position 0, and the backend is not asked.
C30_AsStated ==
  (pc = "Prompting" /\ line.ev = "complete" /\ out # <<>> /\ TypingCommand(line.text)) =>
    /\ out[1].ok /\ out[1].start = 0
    /\ ~out[1].asked.some /\ out[1].listed = "none"
    /\ \A i \in 1..Len(out[1].pairs) : out[1].pairs[i].display = out[1].pairs[i].replacement
    /\ {out[1].pairs[i].replacement : i \in 1..Len(out[1].pairs)}
         = {c \in KnownCommands : StartsWith(c, trim_start(line.text))}

\* C12 as stated: for path completion the directory listed is the token's directory
\* portion, absolute when the token starts with `/` and relative to the current
\* path otherwise, and the candidates are exactly its children whose name starts
\* with the unfinished last segment, for every token, the empty one included.
C12_AsStated ==
  (line.ev = "complete" /\ out[1].asked.some) =>
    /\ out[1].asked.v = DirOfToken(TokenOf(line.text), cwd_shared)
    /\ out[1].listed = "ok" =>
          {out[1].pairs[i].display : i \in 1..Len(out[1].pairs)}
            = { d.path[Len(d.path)] \o <<47>> :
                  d \in { e \in DirTable :
                            /\ Len(e.path) = Len(DirOfToken(TokenOf(line.text), cwd_shared)) + 1
                            /\ SubSeq(e.path, 1, Len(e.path) - 1)
                                 = DirOfToken(TokenOf(line.text), cwd_shared)
                            /\ StartsWith(e.path[Len(e.path)], LastSegment(TokenOf(line.text))) } }

\* ------------------------------------------------- specification SpecBatch
\* One invocation of the program with a subcommand (main.rs): `fdbdir ls [path]` or
\* `fdbdir scan [path] [--limit n] [--prefix literal] [--raw]`, then the process
\* exits.
BatchPaths ==
  { None, Some(Str(<<"/","a","p","p">>)), Some(Str(<<"a","p","p","/","f","o","o","/">>)),
    Some(Str(<<"/","b","i","g">>)), Some(Str(<<"/","f","u","l","l">>)),
    Some(Str(<<"/","n","o","p","e">>)) }
BatchLimits == {0, 1, 2, SAMPLE}
BatchPrefixes ==
  { None, Some(Str(<<"\\","x","1","5">>)), Some(Str(<<"\\","x","z","z">>)) }

ExitError == [t |-> "Error:"]

InitBatch ==
  /\ pc = "Batch"
  /\ cwd = <<>>
  /\ cwd_shared = <<>>
  /\ line = [ev |-> "none"]
  /\ chk = NoCheck
  /\ call = NoCall
  /\ ran = NoRun
  /\ out = <<>>
  /\ key = <<>> /\ ret = <<>> /\ called = FALSE
  /\ SessIdle

\* Commands::Ls
BatchLs ==
  /\ pc = "Batch"
  /\ \E p \in BatchPaths, plan \in Plans :
       \E path \in {parse_path(IF p.some THEN p.v ELSE Str(<<"/">>))} :
       \E r \in {ls_path(path, plan)} :
         /\ call' = [op |-> "ls", path |-> path]
         /\ ran' = [res |-> r.res, runs |-> r.runs, streamed |-> r.streamed]
         /\ out' = r.out \o (IF r.res = "ok" THEN <<>> ELSE <<ExitError>>)
  /\ pc' = "Exited"
  /\ UNCHANGED <<cwd, cwd_shared, line, chk, key, ret, called, hooks, mutex, cmds>>

\* a slip: a --prefix that is no byte literal dropped, as the REPL does, and the
\* scan run without it
BatchScanDropsBadPrefix ==
  /\ pc = "Batch"
  /\ \E p \in BatchPaths, limit \in BatchLimits, pre \in BatchPrefixes,
        raw \in BOOLEAN, plan \in Plans :
       /\ line' = [ev |-> "argv", prefix |-> pre]
       /\ \E lit \in {IF pre.some THEN parse_bytes_literal(pre.v) ELSE [ok |-> TRUE, v |-> <<>>]} :
          \E path \in {parse_path(IF p.some THEN p.v ELSE Str(<<"/">>))} :
          \E prefix_bytes \in {IF pre.some /\ lit.ok THEN Some(lit.v) ELSE None} :
          \E r \in {scan_path(path, limit, prefix_bytes, raw, plan)} :
            /\ call' = [op |-> "scan", path |-> path, limit |-> limit,
                        prefix |-> prefix_bytes, raw |-> raw]
            /\ ran' = [res |-> r.res, runs |-> r.runs, streamed |-> r.streamed]
            /\ out' = r.out \o (IF r.res = "ok" THEN <<>> ELSE <<ExitError>>)
  /\ pc' = "Exited"
  /\ UNCHANGED <<cwd, cwd_shared, chk, key, ret, called, hooks, mutex, cmds>>

\* Commands::Scan, with the --prefix of the command line kept in `line`: a
\* --prefix that is no byte literal ends the program before the scan
BatchScan ==
  /\ pc = "Batch"
  /\ \E p \in BatchPaths, limit \in BatchLimits, pre \in BatchPrefixes,
        raw \in BOOLEAN, plan \in Plans :
       /\ line' = [ev |-> "argv", prefix |-> pre]
       /\ \E lit \in {IF pre.some THEN parse_bytes_literal(pre.v) ELSE [ok |-> TRUE, v |-> <<>>]} :
          IF ~lit.ok
          THEN /\ call' = NoCall
               /\ ran' = NoRun
               /\ out' = <<ExitError>>
          ELSE \E path \in {parse_path(IF p.some THEN p.v ELSE Str(<<"/">>))} :
               \E prefix_bytes \in {IF pre.some THEN Some(lit.v) ELSE None} :
               \E r \in {scan_path(path, limit, prefix_bytes, raw, plan)} :
                 /\ call' = [op |-> "scan", path |-> path, limit |-> limit,
                             prefix |-> prefix_bytes, raw |-> raw]
                 /\ ran' = [res |-> r.res, runs |-> r.runs, streamed |-> r.streamed]
                 /\ out' = r.out \o (IF r.res = "ok" THEN <<>> ELSE <<ExitError>>)
  /\ pc' = "Exited"
  /\ UNCHANGED <<cwd, cwd_shared, chk, key, ret, called, hooks, mutex, cmds>>

NextBatch == BatchLs \/ BatchScan

SpecBatch == InitBatch /\ [][NextBatch]_vars

\* ----------------------------------------------- claims about ls and scan
IsRow(e) == e.t = "row"
IsMore(e) == e.t = "more"
\* the rows a command printed, in the order it printed them
Rows(o) == SelectSeq(o, IsRow)
\* every pair of the database in range r, in key order
AllPairs(r) == SelectSeq(SortedKVs, LAMBDA kv : InRange(kv.key, r))
\* the range the last command read (its directory exists)
CallRange ==
  IF call.op = "scan" THEN scan_range(dir_bytes(call.path), call.prefix)
  ELSE dir_range(call.path)
\* the last command finished without an error
Done(op) == pc = "Exited" /\ call.op = op /\ ran.res = "ok"

\* C7 as stated: a scan with limit L prints exactly min(L, number of pairs in the
\* scanned range) rows, in ascending key order (row j is the j-th pair), for
\* every L >= 0; limit 0 prints no row.
C7_AsStated ==
  Done("scan") =>
    /\ Len(Rows(out)) = Min(call.limit, Len(AllPairs(CallRange)))
    /\ \A j \in 1..Len(Rows(out)) : Rows(out)[j].i = j

\* C8 as stated: ls of the root lists directories and no keys; ls of a directory
\* holding n keys prints exactly min(n, 50) key rows, and the truncation notice
\* if and only if n > 50.
C8_AsStated ==
  Done("ls") =>
    IF call.path = <<>>
    THEN \A j \in 1..Len(out) : out[j].t \in {"path", "Directories:", "dir", "(none)"}
    ELSE /\ Len(Rows(out)) = Min(Len(AllPairs(CallRange)), SAMPLE)
         /\ (\E j \in 1..Len(out) : IsMore(out[j])) <=> Len(AllPairs(CallRange)) > SAMPLE

\* C9 as stated: when db.run executes the closure again after a retryable error,
\* the command prints what a run that succeeds on its first execution prints.
C9_AsStated ==
  /\ Done("ls") => out = ls_path(call.path, <<NoFault>>).out
  /\ Done("scan") =>
        out = scan_path(call.path, call.limit, call.prefix, call.raw, <<NoFault>>).out

\* C10 as stated: a key or value that fails to decode never ends the listing, so the
\* number of rows printed equals the number of pairs the stream yielded.
C10_AsStated ==
  (pc = "Exited" /\ call.op \in {"ls", "scan"}) => Len(Rows(out)) = ran.streamed

\* C10, amended: a key or value that fails to decode never ends the listing: the
\* row shows the raw key through format_bytes and the raw value through
\* try_utf8_or_bytes, and every pair the stream yielded is printed as a row, except
\* the one pair ls reads beyond its SAMPLE rows, which it answers with the
\* truncation notice.
C10_DecodeFailureKeepsListing ==
  (pc = "Exited" /\ call.op \in {"ls", "scan"}) =>
    /\ Len(Rows(out)) + Len(SelectSeq(out, IsMore)) = ran.streamed
    /\ call.op = "scan" => Len(Rows(out)) = ran.streamed
    /\ \A j \in 1..Len(out) :
          IsRow(out[j]) =>
            With(AllPairs(CallRange)[out[j].i], LAMBDA kv :
              /\ ~dir_unpack(dir_bytes(call.path), kv.key).ok
                    => out[j].key = format_bytes(kv.key)
              /\ ~unpack_root(kv.value).ok => out[j].val = try_utf8_or_bytes(kv.value))

\* ls of /app: the second key does not decode, the third value does not, and the
\* fourth pair is printed after them
C10_Witness ==
  /\ Done("ls") /\ call.path = <<app>>
  /\ \E i, j \in 1..Len(out) :
       /\ i < j
       /\ IsRow(out[i]) /\ out[i].key = format_bytes(<<21, 1, 21>>)
       /\ IsRow(out[j]) /\ out[j].i = 4 /\ out[j - 1].val = format_bytes(<<255>>)

\* what a row shows besides its key: its number and its value
NumberAndValue(e) == [i |-> e.i, val |-> e.val]
RowsWithoutKeys(o) == [j \in 1..Len(Rows(o)) |-> NumberAndValue(Rows(o)[j])]

\* C22: with raw mode every key of every printed row is the byte literal of the
\* key, decodable or not; without it a key is the decoded tuple exactly when the
\* directory can unpack it, else the byte literal. The values are rendered without
\* regard to the mode, and a scan that the backend answers at once prints the rows
\* and values of the same scan in the other mode.
C22_RawKeys ==
  (pc = "Exited" /\ call.op = "scan") =>
    /\ \A j \in 1..Len(out) :
          IsRow(out[j]) =>
            With(AllPairs(CallRange)[out[j].i], LAMBDA kv :
            With(dir_unpack(dir_bytes(call.path), kv.key), LAMBDA u :
              /\ call.raw => out[j].key = format_bytes(kv.key)
              /\ (~call.raw /\ u.ok) => out[j].key = format_element(u.el)
              /\ (~call.raw /\ ~u.ok) => out[j].key = format_bytes(kv.key)
              /\ out[j].val = IF unpack_root(kv.value).ok
                              THEN format_element(unpack_root(kv.value).el)
                              ELSE try_utf8_or_bytes(kv.value)))
    /\ (ran.res = "ok" /\ ran.runs = 1) =>
          RowsWithoutKeys(out)
            = RowsWithoutKeys(scan_path(call.path, call.limit, call.prefix, ~call.raw,
                                        <<NoFault>>).out)

\* a raw scan of /app/foo: its one key, a decodable tuple, is printed as bytes
C22_Witness ==
  /\ Done("scan") /\ call.path = <<app, foo>> /\ call.raw
  /\ Len(Rows(out)) = 1
  /\ Rows(out)[1].key = format_bytes(<<21, 2, 2, 120, 0, 21, 1>>)
  /\ dir_unpack(<<21, 2>>, <<21, 2, 2, 120, 0, 21, 1>>).ok

\* ------------------------------------------------ specification SpecResolve
\* The path resolution of the `cd` arm and of the `ls` arm of run_repl, applied to
\* the same argument in the same current directory.
ResolveBases == { <<>>, <<app>>, <<app, foo>>, <<big>> }
ResolveTargets ==
  { Str(<<"/">>), Str(<<".">>), Str(<<".", ".">>), Str(<<"f","o","o">>),
    Str(<<"/","a","p","p">>), Str(<<"/","a","p","p","/","f","o","o","/">>),
    Str(<<"a","/","b">>), Str(<<".",".","/","x">>), Str(<<".","/","f","o","o">>),
    Str(<<>>), Str(<<"/","/">>), Str(<<"a","p","p","/">>), Str(<<".","f","o","o">>),
    Str(<<".",".",".">>), Str(<<" ","a"," ">>), Str(<<"a","/","/","b">>) }

InitResolve ==
  /\ pc = "Resolve"
  /\ call \in [op : {"resolve"}, base : ResolveBases, target : ResolveTargets]
  /\ ran = NoRun
  /\ cwd = <<>> /\ cwd_shared = <<>>
  /\ line = [ev |-> "none"]
  /\ chk = NoCheck
  /\ out = <<>>
  /\ key = <<>> /\ ret = <<>> /\ called = FALSE
  /\ SessIdle

\* `cd target` and `ls target` in the directory base: new_path and path
ResolveTarget ==
  /\ pc = "Resolve"
  /\ ran' = [cd |-> cd_new_path(<<call.target>>, call.base),
             ls |-> ls_target_path(<<call.target>>, call.base)]
  /\ pc' = "Resolved"
  /\ UNCHANGED <<cwd, cwd_shared, line, chk, call, out, key, ret, called, hooks, mutex, cmds>>

NextResolve == ResolveTarget

SpecResolve == InitResolve /\ [][NextResolve]_vars

\* C15 as stated: against the current path, a target starting with `/` resolves to
\* parse(target), `.` to the current path, `..` to the current path without its
\* last segment (the root stays the root), anything else to the current path
\* followed by parse(target); cd and ls resolve the same text to the same path.
C15_AsStated ==
  pc = "Resolved" =>
    /\ ran.cd = ran.ls
    /\ ran.ls = IF StartsWith(call.target, <<47>>) THEN parse_path(call.target)
                ELSE IF call.target = <<46>> THEN call.base
                ELSE IF call.target = <<46, 46>> THEN pop(call.base)
                ELSE call.base \o parse_path(call.target)

\* ------------------------------------------------ specification SpecSession
\* run_repl and ReplHelper::complete step by step: the loop enters rl.readline,
\* the line editor calls the hook from inside it, the hook takes the mutex, clones
\* the shared path, lets the mutex go and blocks on its query; rl.readline returns
\* a line and the loop runs the command arm to its end before the next prompt.

\* the lines rl.readline returns here
SessLines ==
  { Str(<<"c","d"," ","a","p","p">>), Str(<<"c","d"," ","f","o","o">>), Str(<<"c","d"," ","/">>), Str(<<"c","d"," ",".",".">>), Str(<<"c","d"," ","n","o","p","e">>), Str(<<"l","s">>), Str(<<"l","s"," ","f","o","o">>), Str(<<"q","u","i","t">>) }
\* the partial lines the hook is called with here
TabLines ==
  { Str(<<"c">>), Str(<<"c","d"," ">>), Str(<<"c","d"," ","a">>), Str(<<"l","s"," ","/","a","p","p","/","f">>), Str(<<"c","d"," ","f","o","o","/">>), Str(<<"p","w","d"," ","x">>) }

\* main.rs: #[tokio::main] with no flavor builds the multi-thread runtime
runtime_flavor_current_thread == "current_thread"
runtime_flavor == "multi_thread"

\* a slip: the completion dispatched as a task of its own, so that a second Tab,
\* or a command, does not wait for it (at most two at a time here)
hook_may_fire_detached == pc \in {"Readline", "Command"} /\ Len(hooks) < 2

\* Completer::complete is a plain function the line editor calls on Tab from
\* inside rl.readline, on the thread of run_repl, and whose return it waits for
hook_may_fire == pc = "Readline" /\ hooks = <<>>

\* ReplHelper::complete: the line asks for path completion
hook_is_path(l) ==
  /\ ~(Len(split_or_whole(l)) = 0 \/ (~EndsWith(l, 32) /\ Len(split_or_whole(l)) = 1))
  /\ split_or_whole(l)[1] \in {Str(<<"c","d">>), Str(<<"l","s">>), Str(<<"s","c","a","n">>)}
\* ReplHelper::complete: `token`
hook_token(l) ==
  IF EndsWith(l, 32) THEN <<>> ELSE split_or_whole(l)[Len(split_or_whole(l))]

\* the sequence without its i-th element
Without(q, i) == SubSeq(q, 1, i - 1) \o SubSeq(q, i + 1, Len(q))

InitSession ==
  /\ pc = "Prompt"
  /\ cwd = <<>>
  /\ cwd_shared = <<>>
  /\ line = [ev |-> "none"]
  /\ chk = NoCheck
  /\ call = NoCall
  /\ ran = NoRun
  /\ out = <<>>
  /\ key = <<>> /\ ret = <<>> /\ called = FALSE
  /\ SessIdle

\* the loop calls rl.readline(&prompt); what the last command did and printed
\* is behind it
EnterReadline ==
  /\ pc = "Prompt"
  /\ pc' = "Readline"
  /\ line' = [ev |-> "editing"]
  /\ chk' = NoCheck
  /\ call' = NoCall
  /\ ran' = NoRun
  /\ out' = <<>>
  /\ UNCHANGED <<cwd, cwd_shared, key, ret, called, hooks, mutex, cmds>>

\* Tab: the line editor calls ReplHelper::complete
HookCalled ==
  /\ hook_may_fire
  /\ \E l \in TabLines :
       /\ line' = [ev |-> "complete", text |-> l]
       /\ hooks' = Append(hooks, [at |-> "start", line |-> l, p |-> <<>>, res |-> "none"])
  /\ UNCHANGED <<pc, cwd, cwd_shared, chk, call, ran, out, key, ret, called, mutex, cmds>>

\* the paths the shared path can hold: the root and the directories
SessPaths == {<<>>} \cup {d.path : d \in DirTable}
\* ReplHelper::complete for every line, shared path and end of the query of this
\* specification
CompleteTable ==
  [l \in TabLines, p \in SessPaths, ok \in BOOLEAN |-> complete(l, p, ok)]

\* what the hook hands back to the line editor
HookResult(h) ==
  With(CompleteTable[h.line, h.p, h.res = "ok"], LAMBDA c :
    << [t |-> "candidates", ok |-> c.ok, start |-> c.start, pairs |-> c.pairs,
        asked |-> c.asked, listed |-> c.listed] >>)

\* command completion, or a command without path completion: the hook returns
\* without reading the shared path and without a query
HookReturnsEarly(i) ==
  /\ hooks[i].at = "start"
  /\ ~hook_is_path(hooks[i].line)
  /\ out' = HookResult(hooks[i])
  /\ hooks' = Without(hooks, i)
  /\ UNCHANGED <<pc, cwd, cwd_shared, line, chk, call, ran, key, ret, called, mutex, cmds>>

\* `token.starts_with('/')`: base_path comes from the token alone
HookAbsolute(i) ==
  /\ hooks[i].at = "start"
  /\ hook_is_path(hooks[i].line)
  /\ StartsWith(hook_token(hooks[i].line), Str(<<"/">>))
  /\ hooks' = [hooks EXCEPT ![i].at = "built"]
  /\ UNCHANGED <<pc, cwd, cwd_shared, line, chk, call, ran, out, key, ret, called, mutex, cmds>>

\* `self.cwd.lock()`: the hook waits for the mutex and takes it
HookLocks(i) ==
  /\ hooks[i].at = "start"
  /\ hook_is_path(hooks[i].line)
  /\ ~StartsWith(hook_token(hooks[i].line), Str(<<"/">>))
  /\ mutex = "free"
  /\ mutex' = "hook"
  /\ hooks' = [hooks EXCEPT ![i].at = "locked"]
  /\ UNCHANGED <<pc, cwd, cwd_shared, line, chk, call, ran, out, key, ret, called, cmds>>

\* `let mut p = self.cwd.lock().unwrap().clone();`: the guard is a temporary of
\* this statement and is dropped at its end
guard_after_clone == "free"

\* `.unwrap().clone()`: the hook reads the shared path, and the statement ends
HookClones(i) ==
  /\ hooks[i].at = "locked"
  /\ hooks' = [hooks EXCEPT ![i].at = "built", ![i].p = cwd_shared]
  /\ mutex' = guard_after_clone
  /\ UNCHANGED <<pc, cwd, cwd_shared, line, chk, call, ran, out, key, ret, called, cmds>>

\* task::block_in_place(|| Handle::current().block_on(fut)): the thread of
\* run_repl gives its other work away and drives the query itself; on a
\* current-thread runtime block_in_place panics instead
HookBlocksOn(i) ==
  /\ hooks[i].at = "built"
  /\ runtime_flavor = "multi_thread"
  /\ hooks' = [hooks EXCEPT ![i].at = "query"]
  /\ UNCHANGED <<pc, cwd, cwd_shared, line, chk, call, ran, out, key, ret, called, mutex, cmds>>

\* db.run around dl.list ends: with the names, or with an error
ListAnswered(i) ==
  /\ hooks[i].at = "query"
  /\ \E r \in {"ok", "err"} : hooks' = [hooks EXCEPT ![i].at = "answered", ![i].res = r]
  /\ UNCHANGED <<pc, cwd, cwd_shared, line, chk, call, ran, out, key, ret, called, mutex, cmds>>

\* the hook filters the names and returns Ok((start, pairs))
HookReturns(i) ==
  /\ hooks[i].at = "answered"
  /\ out' = HookResult(hooks[i])
  /\ hooks' = Without(hooks, i)
  /\ UNCHANGED <<pc, cwd, cwd_shared, line, chk, call, ran, key, ret, called, mutex, cmds>>

\* a step of a completion call, from its first statement to its return
HookStep ==
  \E i \in DOMAIN hooks :
    \/ HookReturnsEarly(i) \/ HookAbsolute(i) \/ HookLocks(i) \/ HookClones(i)
    \/ HookBlocksOn(i) \/ ListAnswered(i) \/ HookReturns(i)

\* Enter: rl.readline returns the line (the line editor is not inside the hook)
ReadlineReturns ==
  /\ pc = "Readline"
  /\ hooks = <<>>
  /\ \E l \in SessLines : line' = [ev |-> "line", text |-> l]
  /\ out' = <<>>
  /\ pc' = "Dispatch"
  /\ UNCHANGED <<cwd, cwd_shared, chk, call, ran, key, ret, called, hooks, mutex, cmds>>

\* "quit" | "exit" => break
SessQuit ==
  /\ pc = "Dispatch"
  /\ line.text \in QuitLines
  /\ pc' = "Stopped"
  /\ UNCHANGED <<cwd, cwd_shared, line, chk, call, ran, out, key, ret, called, hooks, mutex, cmds>>

\* the `cd` arm up to the .await of its existence check
CdStarts ==
  /\ pc = "Dispatch"
  /\ Dispatches(line.text, {Str(<<"c","d">>)})
  /\ cmds' = Append(cmds, [cmd |-> "cd", at |-> "check",
                           path |-> cd_new_path(Tail(Parts(line.text)), cwd)])
  /\ pc' = "Command"
  /\ UNCHANGED <<cwd, cwd_shared, line, chk, call, ran, out, key, ret, called, hooks, mutex>>

\* the check ends: Ok(false) or Err, and the arm prints and is done; Ok(true),
\* and the arm goes on to `cwd = new_path`
CdChecked(i) ==
  /\ cmds[i].cmd = "cd" /\ cmds[i].at = "check"
  /\ \E backendOk \in BOOLEAN :
     \E ok \in {backendOk /\ dl_exists(cmds[i].path)} :
       /\ chk' = [path |-> cmds[i].path,
                  res |-> IF ~backendOk THEN "err" ELSE IF ok THEN "true" ELSE "false"]
       /\ out' = (IF backendOk THEN <<>> ELSE <<ErrorLine>>)
                   \o (IF ok THEN <<>>
                       ELSE << [t |-> "No such directory", s |-> display_path(cmds[i].path)] >>)
       /\ cmds' = IF ok THEN [cmds EXCEPT ![i].at = "assign"] ELSE Without(cmds, i)
       /\ pc' = IF ok THEN pc ELSE "Prompt"
  /\ UNCHANGED <<cwd, cwd_shared, line, call, ran, key, ret, called, hooks, mutex>>

\* `cwd = new_path;`
CdAssigns(i) ==
  /\ cmds[i].cmd = "cd" /\ cmds[i].at = "assign"
  /\ cwd' = cmds[i].path
  /\ cmds' = [cmds EXCEPT ![i].at = "lock"]
  /\ UNCHANGED <<pc, cwd_shared, line, chk, call, ran, out, key, ret, called, hooks, mutex>>

\* `cwd_shared.lock()`: the arm waits for the mutex and takes it
CdLocks(i) ==
  /\ cmds[i].cmd = "cd" /\ cmds[i].at = "lock"
  /\ mutex = "free"
  /\ mutex' = "main"
  /\ cmds' = [cmds EXCEPT ![i].at = "store"]
  /\ UNCHANGED <<pc, cwd, cwd_shared, line, chk, call, ran, out, key, ret, called, hooks>>

\* a slip: the guard taken and dropped without the write
CdStoresNothing(i) ==
  /\ cmds[i].cmd = "cd" /\ cmds[i].at = "store"
  /\ mutex' = "free"
  /\ cmds' = Without(cmds, i)
  /\ pc' = "Prompt"
  /\ UNCHANGED <<cwd, cwd_shared, line, chk, call, ran, out, key, ret, called, hooks>>

\* `*cwd_shared.lock().unwrap() = cwd.clone();`: the write, the guard dropped,
\* and the arm is done
CdStores(i) ==
  /\ cmds[i].cmd = "cd" /\ cmds[i].at = "store"
  /\ cwd_shared' = cwd
  /\ mutex' = "free"
  /\ cmds' = Without(cmds, i)
  /\ pc' = "Prompt"
  /\ UNCHANGED <<cwd, line, chk, call, ran, out, key, ret, called, hooks>>

\* the `ls` arm up to the .await of ls_path
LsStarts ==
  /\ pc = "Dispatch"
  /\ Dispatches(line.text, {Str(<<"l","s">>)})
  /\ cmds' = Append(cmds, [cmd |-> "ls", at |-> "list",
                           path |-> ls_target_path(Tail(Parts(line.text)), cwd)])
  /\ pc' = "Command"
  /\ UNCHANGED <<cwd, cwd_shared, line, chk, call, ran, out, key, ret, called, hooks, mutex>>

\* ls_path ends, and with it the arm
LsEnds(i) ==
  /\ cmds[i].cmd = "ls" /\ cmds[i].at = "list"
  /\ \E plan \in ReplPlans :
     \E r \in {ls_path(cmds[i].path, plan)} :
       /\ call' = [op |-> "ls", path |-> cmds[i].path]
       /\ ran' = [res |-> r.res, runs |-> r.runs, streamed |-> r.streamed]
       /\ out' = r.out \o (IF r.res = "ok" THEN <<>> ELSE <<ErrorLine>>)
  /\ cmds' = Without(cmds, i)
  /\ pc' = "Prompt"
  /\ UNCHANGED <<cwd, cwd_shared, line, chk, key, ret, called, hooks, mutex>>

\* a step of a command arm after its start
CommandStep ==
  \E i \in DOMAIN cmds :
    \/ CdChecked(i) \/ CdAssigns(i) \/ CdLocks(i) \/ CdStores(i) \/ LsEnds(i)

NextSession ==
  \/ EnterReadline \/ HookCalled \/ HookStep \/ ReadlineReturns
  \/ SessQuit \/ CdStarts \/ LsStarts \/ CommandStep

SpecSession == InitSession /\ [][NextSession]_vars

\* The thread in the hook keeps running it, and the query ends (the premise of
\* the claim); nothing is asked of the user or of the rest of the loop.
SpecSessionFair == SpecSession /\ WF_vars(HookStep)

\* a completion call that is reading the shared path
HookReading(i) == hooks[i].at = "locked"
\* a cd that is writing the shared path
CdWriting(i) == cmds[i].cmd = "cd" /\ cmds[i].at = "store"

\* C13: the completion hook never runs while a command runs; a read of the
\* shared path by the hook never overlaps a write of it by cd; at most one
\* completion call is outstanding; no two commands overlap.
C13_HookAndCommandsApart ==
  /\ ~(hooks # <<>> /\ cmds # <<>>)
  /\ \A i \in DOMAIN hooks : \A j \in DOMAIN cmds : ~(HookReading(i) /\ CdWriting(j))
  /\ Len(hooks) <= 1
  /\ Len(cmds) <= 1

\* a completion call is reading the shared path that an earlier cd wrote
C13_Witness ==
  /\ Len(hooks) = 1 /\ HookReading(1)
  /\ mutex = "hook"
  /\ cwd_shared = <<app>>
  /\ cmds = <<>>

\* C14: every call of the completion hook returns, given that its query ends;
\* and while the hook waits for the query the mutex of the shared path is not
\* held.
C14_HookReturns ==
  /\ (hooks # <<>>) ~> (hooks = <<>>)
  /\ [](\A i \in DOMAIN hooks : hooks[i].at \in {"built", "query", "answered"} => mutex = "free")

\* a completion call waits for its query, the shared path read and the mutex free
C14_Witness ==
  /\ Len(hooks) = 1
  /\ hooks[1].at = "query"
  /\ hooks[1].p = <<app>>
  /\ mutex = "free"

\* C26: whenever the line editor is reading a line, the path shared with the
\* completion hook equals the main loop's current path, whatever `cd` commands,
\* successful or failed, came before.
C26_PathCopiesAgree == pc = "Readline" => cwd_shared = cwd

\* reading a line in /app/foo, two successful `cd` behind
C26_Witness == pc = "Readline" /\ cwd = <<app, foo>> /\ cwd_shared = <<app, foo>>

\* -------------------------------------------------- specification SpecParse
\* parse_path applied to every text over TextChars of at most MaxTextLen bytes.
TextChars == {Ord("/"), Ord("a"), Ord("b"), Ord(" ")}
Texts == SeqsUpTo(TextChars, MaxTextLen)

InitParse ==
  /\ pc = "Parse"
  /\ call \in [op : {"parse_path"}, text : Texts]
  /\ ran = NoRun
  /\ cwd = <<>> /\ cwd_shared = <<>>
  /\ line = [ev |-> "none"]
  /\ chk = NoCheck
  /\ out = <<>>
  /\ key = <<>> /\ ret = <<>> /\ called = FALSE
  /\ SessIdle

CallParsePath ==
  /\ pc = "Parse"
  /\ ran' = [v |-> parse_path(call.text)]
  /\ pc' = "Parsed"
  /\ UNCHANGED <<cwd, cwd_shared, line, chk, call, out, key, ret, called, hooks, mutex, cmds>>

NextParse == CallParsePath

SpecParse == InitParse /\ [][NextParse]_vars

\* where the non-empty segments of t between `/` characters start
SegmentStarts(t) == {i \in 1..Len(t) : t[i] # 47 /\ (i = 1 \/ t[i - 1] = 47)}
\* the segment of t that starts at i: up to the next `/` or the end
SegmentAt(t, i) ==
  SubSeq(t, i, CHOOSE j \in i..Len(t) :
                 /\ \A m \in i..j : t[m] # 47
                 /\ (j = Len(t) \/ t[j + 1] = 47))
\* the non-empty segments of t between `/` characters, in order
SegmentsOf(t) ==
  [n \in 1..Cardinality(SegmentStarts(t)) |->
     SegmentAt(t, CHOOSE i \in SegmentStarts(t) :
                    Cardinality({m \in SegmentStarts(t) : m < i}) = n - 1)]

\* C16 as stated: parse_path returns, for every text, the non-empty segments
\* between its `/` characters in order.
C16_AsStated == pc = "Parsed" => ran.v = SegmentsOf(call.text)

\* C16, amended: parse_path never fails and returns the non-empty segments between
\* the `/` characters of the text without its leading and trailing whitespace, in
\* order; "" and "/" give the empty path, and no segment of the result is empty
\* or holds a `/`.
C16_ParsePathSegments ==
  pc = "Parsed" =>
    /\ ran.v = SegmentsOf(trim(call.text))
    /\ call.text \in {<<>>, <<47>>} => ran.v = <<>>
    /\ \A n \in 1..Len(ran.v) : ran.v[n] # <<>> /\ \A m \in 1..Len(ran.v[n]) : ran.v[n][m] # 47

\* parse("/a/b/") = ["a", "b"]
C16_Witness ==
  pc = "Parsed" /\ call.text = Str(<<"/","a","/","b","/">>)
    /\ ran.v = <<Str(<<"a">>), Str(<<"b">>)>>

\* ------------------------------------------------ specification SpecLiteral
\* parse_bytes_literal applied to every literal text over LitChars of at most
\* MaxLitLen bytes and to two long ones, and format_bytes applied to the bytes.
LitChars == {Ord("\\"), Ord("x"), Ord("X"), Ord("n"), Ord("F"), Ord("a"), Ord("0"), Ord("\"")}
LongLits == {[i \in 1..n |-> Ord("a")] : n \in {MAX, MAX + 1}}
Literals == SeqsUpTo(LitChars, MaxLitLen) \cup LongLits

InitLiteral ==
  /\ pc = "Literal"
  /\ call \in [op : {"literal"}, text : Literals]
  /\ ran = NoRun
  /\ cwd = <<>> /\ cwd_shared = <<>>
  /\ line = [ev |-> "none"]
  /\ chk = NoCheck
  /\ out = <<>>
  /\ key = <<>> /\ ret = <<>> /\ called = FALSE
  /\ SessIdle

\* decode the text; the bytes, when there are some, are rendered again
DecodeThenEncode ==
  /\ pc = "Literal"
  /\ \E d \in {parse_bytes_literal(call.text)} :
       ran' = [dec |-> d, enc |-> IF d.ok THEN format_bytes(d.v) ELSE <<>>]
  /\ pc' = "Decoded"
  /\ UNCHANGED <<cwd, cwd_shared, line, chk, call, out, key, ret, called, hooks, mutex, cmds>>

NextLiteral == DecodeThenEncode

SpecLiteral == InitLiteral /\ [][NextLiteral]_vars

\* The left-to-right scan of a literal text t, with `marks` the characters that
\* open a hex escape after a backslash: a backslash that is not the last byte
\* opens an escape of 4 bytes (hex) or 2 bytes, every other byte stands alone.
IsEscape(t, i) == t[i] = 92 /\ i < Len(t)
IsHexEscape(t, i, marks) == IsEscape(t, i) /\ t[i + 1] \in marks
TokenWidth(t, i, marks) ==
  IF IsHexEscape(t, i, marks) THEN 4 ELSE IF IsEscape(t, i) THEN 2 ELSE 1
\* the scan at position st.i with the token starts st.seen behind it moves over
\* one token; n such moves, the first half done before the second
ScanMove(t, st, marks) ==
  IF st.i > Len(t) THEN st
  ELSE [i |-> st.i + TokenWidth(t, st.i, marks), seen |-> st.seen \cup {st.i}]
RECURSIVE ScanMoves(_, _, _, _)
ScanMoves(t, st, n, marks) ==
  IF n = 0 THEN st
  ELSE IF n = 1 THEN ScanMove(t, st, marks)
  ELSE CHOOSE after \in {ScanMoves(t, half, n - (n \div 2), marks) :
                           half \in {ScanMoves(t, st, n \div 2, marks)}} : TRUE
\* the positions where a token starts, scanning from i
ScanStarts(t, i, marks) == ScanMoves(t, [i |-> i, seen |-> {}], Len(t), marks).seen
\* how many tokens start before position i
TokensBefore(t, i, marks) == Cardinality({m \in ScanStarts(t, 1, marks) : m < i})

LowerX == {Ord("x")}
BothX == {Ord("x"), Ord("X")}
HexChars == (48..57) \cup (97..102) \cup (65..70)
HexValue(c) == IF c \in 48..57 THEN c - 48 ELSE IF c \in 97..102 THEN c - 87 ELSE c - 55
\* a hex escape at i with fewer than two characters after its mark, or with a
\* character that is no hex digit
BadHexEscape(t, i, marks) ==
  /\ IsHexEscape(t, i, marks)
  /\ \/ Len(t) - (i + 1) < 2
     \/ t[i + 2] \notin HexChars
     \/ t[i + 3] \notin HexChars
HexFails(t, marks) == \E i \in ScanStarts(t, 1, marks) : BadHexEscape(t, i, marks)
\* the byte a two-byte escape `\c` stands for
EscapedByte(c) ==
  IF c = Ord("n") THEN 10 ELSE IF c = Ord("r") THEN 13 ELSE IF c = Ord("t") THEN 9 ELSE c

\* C17 as stated: decode fails exactly when a `\x` escape has fewer than two
\* characters after it or one of the two is no hex digit.
C17_AsStated ==
  pc = "Decoded" => (~ran.dec.ok <=> HexFails(call.text, LowerX))

\* C17, amended: a hex escape is a backslash followed by `x` or by `X`; it
\* consumes exactly two hex digits and yields the byte 16*H1+H2; decode fails
\* exactly when the scan meets a hex escape with fewer than two characters after
\* the `x` or `X`, or with a character not in [0-9a-fA-F]; a failure returns no
\* bytes.
C17_HexEscape ==
  pc = "Decoded" =>
    /\ ~ran.dec.ok <=> HexFails(call.text, BothX)
    /\ ~ran.dec.ok => ran.dec.v = <<>>
    /\ ran.dec.ok =>
         /\ Len(ran.dec.v) = Cardinality(ScanStarts(call.text, 1, BothX))
         /\ \A i \in ScanStarts(call.text, 1, BothX) :
              IsHexEscape(call.text, i, BothX) =>
                /\ ran.dec.v[TokensBefore(call.text, i, BothX) + 1]
                     = 16 * HexValue(call.text[i + 2]) + HexValue(call.text[i + 3])
                /\ i + 4 \in ScanStarts(call.text, 1, BothX) \cup {Len(call.text) + 1}

\* `\xaF` decodes to the byte 175
C17_Witness ==
  /\ pc = "Decoded"
  /\ call.text = Str(<<"\\","x","a","F">>)
  /\ ran.dec = [ok |-> TRUE, v |-> <<175>>]

\* C18 as stated: only `\x` opens a hex escape; `\n`, `\r`, `\t`, `\\`, `\"` give
\* their byte, every other `\c` (uppercase `X` too) gives the byte c, and every
\* other byte, a lone last backslash too, passes through.
C18_AsStated ==
  (pc = "Decoded" /\ ~HexFails(call.text, LowerX)) =>
    /\ ran.dec.ok
    /\ Len(ran.dec.v) = Cardinality(ScanStarts(call.text, 1, LowerX))
    /\ \A i \in ScanStarts(call.text, 1, LowerX) :
         ~IsHexEscape(call.text, i, LowerX) =>
           ran.dec.v[TokensBefore(call.text, i, LowerX) + 1]
             = IF IsEscape(call.text, i) THEN EscapedByte(call.text[i + 1]) ELSE call.text[i]

\* C18, amended: scanning left to right, `\n`, `\r`, `\t`, `\\`, `\"` give their
\* byte; every other `\c` with c neither `x` nor `X` gives the byte c; every byte
\* outside an escape, a lone last backslash too, passes through.
C18_EscapesAndPlain ==
  (pc = "Decoded" /\ ran.dec.ok) =>
    /\ Len(ran.dec.v) = Cardinality(ScanStarts(call.text, 1, BothX))
    /\ \A i \in ScanStarts(call.text, 1, BothX) :
         ~IsHexEscape(call.text, i, BothX) =>
           ran.dec.v[TokensBefore(call.text, i, BothX) + 1]
             = IF IsEscape(call.text, i) THEN EscapedByte(call.text[i + 1]) ELSE call.text[i]

\* `\na\` decodes to newline, a, backslash
C18_Witness ==
  /\ pc = "Decoded"
  /\ call.text = Str(<<"\\","n","a","\\">>)
  /\ ran.dec = [ok |-> TRUE, v |-> <<10, 97, 92>>]

\* the text with the b"..." that format_bytes puts around its output
Quoted(t) == Str(<<"b", "\"">>) \o t \o Str(<<"\"">>)
\* what is between the b" and the last " of a rendering
Unquoted(e) == SubSeq(e, 3, Len(e) - 1)

\* literal text of documented escapes and plain characters only: every
\* backslash opens `\xHH`, `\n`, `\r`, `\t`, `\\` or `\"`
Documented(t) ==
  \A i \in ScanStarts(t, 1, LowerX) :
    t[i] = 92 =>
      /\ IsEscape(t, i)
      /\ t[i + 1] \in {Ord("x"), Ord("n"), Ord("r"), Ord("t"), Ord("\\"), Ord("\"")}
      /\ ~BadHexEscape(t, i, LowerX)

\* literal text written the way format_bytes writes bytes: ASCII letters,
\* digits, `-` and `_` as themselves, a backslash as `\\`, and every other byte
\* as `\xhh` with lowercase digits
PlainChar(c) == c \in (48..57) \cup (65..90) \cup (97..122) \cup {Ord("-"), Ord("_")}
LowerHexChars == (48..57) \cup (97..102)
Canonical(t) ==
  \A i \in ScanStarts(t, 1, LowerX) :
    IF t[i] # 92 THEN PlainChar(t[i])
    ELSE /\ IsEscape(t, i)
         /\ \/ t[i + 1] = 92
            \/ /\ t[i + 1] = Ord("x")
               /\ i + 3 <= Len(t)
               /\ t[i + 2] \in LowerHexChars /\ t[i + 3] \in LowerHexChars
               /\ ~PlainChar(16 * HexValue(t[i + 2]) + HexValue(t[i + 3]))
               /\ 16 * HexValue(t[i + 2]) + HexValue(t[i + 3]) # 92

\* C20 as stated: for a literal text of documented escapes and plain characters,
\* decode followed by encode gives the original text back (counted as given back
\* also when it comes inside the b"..." of the encoder).
C20_AsStated ==
  (pc = "Decoded" /\ Documented(call.text)) =>
    /\ ran.dec.ok
    /\ ran.enc \in {call.text, Quoted(call.text)}

\* C20, amended: when a literal text decodes to at most MAX bytes, the encoder's
\* output is b"..." around a literal text that decodes to the same bytes; it is
\* the original text itself when that text is written in the encoder's own form.
C20_RoundTrip ==
  (pc = "Decoded" /\ ran.dec.ok /\ Len(ran.dec.v) <= MAX) =>
    /\ ran.enc = Quoted(Unquoted(ran.enc))
    /\ parse_bytes_literal(Unquoted(ran.enc)) = ran.dec
    /\ Canonical(call.text) <=> ran.enc = Quoted(call.text)

\* `\xa0`, in the encoder's form, comes back as b"\xa0"
C20_Witness ==
  /\ pc = "Decoded"
  /\ call.text = Str(<<"\\","x","a","0">>)
  /\ ran.dec = [ok |-> TRUE, v |-> <<160>>]
  /\ ran.enc = Quoted(call.text)

\* ------------------------------------------------- specification SpecEncode
\* format_bytes applied to every byte string over EncBytes of at most
\* MaxBytesLen bytes, and to strings of one byte repeated around MAX times.
EncBytes == {0, 10, 32, Ord("-"), Ord("/"), Ord("9"), Ord("A"), Ord("\\"), Ord("_"), Ord("z"), 171, 255}
LongBytes == {[i \in 1..n |-> b] : n \in (MAX - 1)..(MAX + 2), b \in {Ord("a"), Ord("\\"), 255}}
ByteStrings == SeqsUpTo(EncBytes, MaxBytesLen) \cup LongBytes

InitEncode ==
  /\ pc = "Encode"
  /\ call \in [op : {"format_bytes"}, b : ByteStrings]
  /\ ran = NoRun
  /\ cwd = <<>> /\ cwd_shared = <<>>
  /\ line = [ev |-> "none"]
  /\ chk = NoCheck
  /\ out = <<>>
  /\ key = <<>> /\ ret = <<>> /\ called = FALSE
  /\ SessIdle

CallFormatBytes ==
  /\ pc = "Encode"
  /\ ran' = [v |-> format_bytes(call.b)]
  /\ pc' = "Encoded"
  /\ UNCHANGED <<cwd, cwd_shared, line, chk, call, out, key, ret, called, hooks, mutex, cmds>>

NextEncode == CallFormatBytes

SpecEncode == InitEncode /\ [][NextEncode]_vars

\* the sixteen lowercase hex digits
LowerHex == Str(<<"0","1","2","3","4","5","6","7","8","9","a","b","c","d","e","f">>)
\* how one source byte is written
Piece(b) ==
  IF PlainChar(b) THEN <<b>>
  ELSE IF b = 92 THEN <<92, 92>>
  ELSE <<92, 120, LowerHex[(b \div 16) + 1], LowerHex[(b % 16) + 1]>>
RECURSIVE PiecesBetween(_, _, _)
PiecesBetween(b, lo, hi) ==
  IF lo > hi THEN <<>>
  ELSE IF lo = hi THEN Piece(b[lo])
  ELSE PiecesBetween(b, lo, (lo + hi) \div 2) \o PiecesBetween(b, ((lo + hi) \div 2) + 1, hi)
Pieces(b, n) == PiecesBetween(b, 1, n)

\* C19: format_bytes gives b" and " around its output; inside, each of the first
\* 64 source bytes is written as itself (ASCII letter, digit, `-`, `_`), as `\\`
\* (backslash) or as `\xhh` in lowercase hex (every other byte), and the ellipsis
\* follows if and only if the input has more than 64 bytes.
C19_FormatBytes ==
  pc = "Encoded" =>
    ran.v = Str(<<"b", "\"">>)
              \o Pieces(call.b, IF Len(call.b) > 64 THEN 64 ELSE Len(call.b))
              \o (IF Len(call.b) > 64 THEN <<226, 128, 166>> ELSE <<>>)
              \o Str(<<"\"">>)

\* 65 bytes 0xff: 64 times `\xff`, then the ellipsis
C19_Witness ==
  /\ pc = "Encoded"
  /\ call.b = [i \in 1..65 |-> 255]
  /\ Len(ran.v) = 2 + 64 * 4 + 3 + 1
  /\ SubSeq(ran.v, 3, 6) = Str(<<"\\","x","f","f">>)
  /\ SubSeq(ran.v, Len(ran.v) - 3, Len(ran.v) - 1) = Ellipsis

\* ----------------------------------------------- specification SpecScanArgs
\* the `scan` arm of run_repl on every list of at most MaxToks argument tokens
\* out of ScanToks, in the directory /app
ScanToks ==
  { Str(<<"-","-","r","a","w">>), Str(<<"-","r">>), Str(<<"r","a","w">>), Str(<<"1">>), Str(<<"2">>), Str(<<"+","3">>), Str(<<"-","1">>), Str(<<"a">>), Str(<<"\\","x","1","5">>), Str(<<"\\","x","z">>) }
ScanTokLists == SeqsUpTo(ScanToks, MaxToks)

InitScanArgs ==
  /\ pc = "ScanArm"
  /\ cwd = <<app>>
  /\ cwd_shared = <<app>>
  /\ line = [ev |-> "none"]
  /\ chk = NoCheck
  /\ call \in [op : {"parts"}, toks : ScanTokLists]
  /\ ran = NoRun
  /\ out = <<>>
  /\ key = <<>> /\ ret = <<>> /\ called = FALSE
  /\ SessIdle

\* the arm: the argument loop, then scan_path on the current path
ScanArm ==
  /\ pc = "ScanArm"
  /\ \E a \in {scan_args(call.toks, [limit |-> 50, prefix |-> None, raw |-> FALSE])} :
     \E r \in {scan_path(cwd, a.limit, a.prefix, a.raw, <<NoFault>>)} :
       /\ chk' = [path |-> cwd, res |-> "none", toks |-> call.toks]
       /\ call' = [op |-> "scan", path |-> cwd, limit |-> a.limit,
                   prefix |-> a.prefix, raw |-> a.raw]
       /\ ran' = [res |-> r.res, runs |-> r.runs, streamed |-> r.streamed]
       /\ out' = r.out \o (IF r.res = "ok" THEN <<>> ELSE <<ErrorLine>>)
  /\ pc' = "Scanned"
  /\ UNCHANGED <<cwd, cwd_shared, line, key, ret, called, hooks, mutex, cmds>>

NextScanArgs == ScanArm

SpecScanArgs == InitScanArgs /\ [][NextScanArgs]_vars

RawToks == { Str(<<"-","-","r","a","w">>), Str(<<"-","r">>), Str(<<"r","a","w">>) }
\* an optional +, then decimal digits
IntLooking(tok) ==
  \E d \in {IF tok # <<>> /\ tok[1] = 43 THEN Tail(tok) ELSE tok} :
    d # <<>> /\ \A i \in 1..Len(d) : d[i] \in 48..57
\* the number an integer-looking token of this specification stands for
IntOf(tok) ==
  CHOOSE n \in 0..9 : <<48 + n>> = (IF tok[1] = 43 THEN Tail(tok) ELSE tok)
IntPositions(toks) == {i \in 1..Len(toks) : IntLooking(toks[i])}
\* the tokens that are neither a raw flag nor a number
RestPositions(toks) ==
  {i \in 1..Len(toks) : toks[i] \notin RawToks /\ ~IntLooking(toks[i])}
LiteralPositions(toks) ==
  {i \in RestPositions(toks) : ~HexFails(toks[i], BothX)}
MinOf(ns) == CHOOSE n \in ns : \A m \in ns : n <= m
MaxOf(ns) == CHOOSE n \in ns : \A m \in ns : m <= n
\* raw mode, the prefix, and that the scan ran, as the claim has them
ScanRawAndPrefix(toks) ==
  /\ call.op = "scan"
  /\ ran.res = "ok"
  /\ call.raw <=> \E i \in 1..Len(toks) : toks[i] \in RawToks
  /\ call.prefix.some <=> LiteralPositions(toks) # {}
  /\ call.prefix.some =>
       call.prefix.v = parse_bytes_literal(toks[MinOf(LiteralPositions(toks))]).v

\* C21 as stated: raw mode iff a token is `--raw`, `-r` or `raw`; the limit is the
\* first integer-looking token, 50 without one; the prefix is the first other
\* token that decodes; a token that does not decode is ignored and the scan runs.
C21_AsStated ==
  pc = "Scanned" =>
    /\ ScanRawAndPrefix(chk.toks)
    /\ call.limit = IF IntPositions(chk.toks) = {} THEN 50
                    ELSE IntOf(chk.toks[MinOf(IntPositions(chk.toks))])

\* C21, amended: as stated, but the limit is the last integer-looking token.
C21_ScanArgs ==
  pc = "Scanned" =>
    /\ ScanRawAndPrefix(chk.toks)
    /\ call.limit = IF IntPositions(chk.toks) = {} THEN 50
                    ELSE IntOf(chk.toks[MaxOf(IntPositions(chk.toks))])

\* `scan \xz 2 \x15`: the malformed token ignored, limit 2, prefix 0x15
C21_Witness ==
  /\ pc = "Scanned"
  /\ chk.toks = << Str(<<"\\","x","z">>), Str(<<"2">>), Str(<<"\\","x","1","5">>) >>
  /\ call = [op |-> "scan", path |-> <<app>>, limit |-> 2, prefix |-> Some(<<21>>), raw |-> FALSE]
  /\ ran.res = "ok"

\* ---------------------------------------------- specification SpecRoundTrip
\* format_bytes applied to the byte strings of SpecEncode, and parse_bytes_literal
\* applied to what stands between the b" and the closing " of the result.
EncodeThenDecode ==
  /\ pc = "Encode"
  /\ \E enc \in {format_bytes(call.b)} :
       ran' = [enc |-> enc, dec |-> parse_bytes_literal(SubSeq(enc, 3, Len(enc) - 1))]
  /\ pc' = "Reparsed"
  /\ UNCHANGED <<cwd, cwd_shared, line, chk, call, out, key, ret, called, hooks, mutex, cmds>>

NextRoundTrip == EncodeThenDecode

SpecRoundTrip == InitEncode /\ [][NextRoundTrip]_vars

\* C28: for every byte string b of at most 64 bytes, parse_bytes_literal of the
\* text between the quotes of format_bytes(b) succeeds and returns b.
C28_EncodeDecode ==
  (pc = "Reparsed" /\ Len(call.b) <= MAX) =>
    /\ ran.enc = Quoted(Unquoted(ran.enc))
    /\ ran.dec = [ok |-> TRUE, v |-> call.b]

\* 64 backslashes come back from the 128 characters they are written as
C28_Witness ==
  /\ pc = "Reparsed"
  /\ call.b = [i \in 1..MAX |-> Ord("\\")]
  /\ Len(ran.enc) = 2 * MAX + 3
  /\ ran.dec = [ok |-> TRUE, v |-> call.b]

\* ------------------------------------------------ specification SpecElement
\* format_element applied to tuple elements: the scalars of Scalars, tuples of
\* at most MaxItems scalars, and tuples of at most MaxItems elements of Nested
\* (tuples inside tuples, three levels deep).
ElNil == [tag |-> "Nil"]
ElBool(b) == [tag |-> "Bool", v |-> b]
ElInt(n) == [tag |-> "Int", v |-> n]
ElTuple(items) == [tag |-> "Tuple", items |-> items]
Scalars == <<ElNil, ElBool(TRUE), ElBool(FALSE), ElInt(0), ElInt(-12), ElInt(305)>>
Nested ==
  <<ElNil, ElInt(7), ElTuple(<<>>), ElTuple(<<ElBool(TRUE), ElInt(-1)>>),
    ElTuple(<<ElTuple(<<ElInt(40)>>), ElNil>>)>>
\* an element is picked by the positions of its items in Scalars or in Nested
Picks ==
  [of : {"scalar"}, at : [1..1 -> 1..Len(Scalars)]]
    \cup [of : {"scalars"}, at : SeqsUpTo(1..Len(Scalars), MaxItems)]
    \cup [of : {"nested"}, at : SeqsUpTo(1..Len(Nested), MaxItems)]
Picked(p) ==
  IF p.of = "scalar" THEN Scalars[p.at[1]]
  ELSE IF p.of = "scalars" THEN ElTuple([i \in 1..Len(p.at) |-> Scalars[p.at[i]]])
  ELSE ElTuple([i \in 1..Len(p.at) |-> Nested[p.at[i]]])

InitElement ==
  /\ pc = "Format"
  /\ \E p \in Picks : call = [op |-> "format_element", el |-> Picked(p)]
  /\ ran = NoRun
  /\ cwd = <<>> /\ cwd_shared = <<>>
  /\ line = [ev |-> "none"]
  /\ chk = NoCheck
  /\ out = <<>>
  /\ key = <<>> /\ ret = <<>> /\ called = FALSE
  /\ SessIdle

CallFormatElement ==
  /\ pc = "Format"
  /\ ran' = [v |-> format_element(call.el)]
  /\ pc' = "Formatted"
  /\ UNCHANGED <<cwd, cwd_shared, line, chk, call, out, key, ret, called, hooks, mutex, cmds>>

NextElement == CallFormatElement

SpecElement == InitElement /\ [][NextElement]_vars

\* text is the decimal numeral of n: an optional `-`, then digits without a
\* leading zero, whose value is the magnitude of n
IsDecimalOf(text, n) ==
  \E d \in {IF n < 0 THEN Tail(text) ELSE text} :
     /\ text # <<>> /\ d # <<>>
     /\ (n < 0) = (Head(text) = Ord("-"))
     /\ \A i \in 1..Len(d) : d[i] \in 48..57
     /\ (Len(d) > 1 => d[1] # 48)
     /\ DigitsValue(d, 0) = (IF n < 0 THEN 0 - n ELSE n)
\* the texts of parts with sep between each two
RECURSIVE Joined(_, _)
Joined(parts, sep) ==
  IF Len(parts) = 0 THEN <<>>
  ELSE IF Len(parts) = 1 THEN parts[1]
  ELSE Joined(SubSeq(parts, 1, Len(parts) - 1), sep) \o sep \o parts[Len(parts)]

\* C25: format_element returns a text for every element of finite depth: `nil`
\* for Nil, `true` / `false` for Bool, the decimal text for Int, and for a tuple
\* `(`, the renderings of its items joined by `, `, and `)`; `()` when empty.
C25_FormatElement ==
  pc = "Formatted" =>
    /\ ran.v \in Seq(0..255)
    /\ ran.v = format_element(call.el)
    /\ call.el.tag = "Nil" => ran.v = Str(<<"n", "i", "l">>)
    /\ call.el.tag = "Bool" =>
         ran.v = (IF call.el.v THEN Str(<<"t", "r", "u", "e">>) ELSE Str(<<"f", "a", "l", "s", "e">>))
    /\ call.el.tag = "Int" => IsDecimalOf(ran.v, call.el.v)
    /\ call.el.tag = "Tuple" =>
         /\ ran.v = Str(<<"(">>)
                      \o Joined([i \in 1..Len(call.el.items) |-> format_element(call.el.items[i])],
                                Str(<<",", " ">>))
                      \o Str(<<")">>)
         /\ (call.el.items = <<>> => ran.v = Str(<<"(", ")">>))

\* ((40), nil) inside a tuple with -12: three levels, rendered `(((40), nil), 7)`
C25_Witness ==
  /\ pc = "Formatted"
  /\ call.el = ElTuple(<<ElTuple(<<ElTuple(<<ElInt(40)>>), ElNil>>), ElInt(7)>>)
  /\ ran.v = Str(<<"(", "(", "(", "4", "0", ")", ",", " ", "n", "i", "l", ")", ",", " ", "7", ")">>)

\* --------------------------------------------------- specification SpecPath
\* display_path applied to every path of at most MaxSegs segments out of
\* PathSegs, and parse_path applied to the result.
PathSegs ==
  { Str(<<"a">>), Str(<<"a", "b">>), Str(<<".">>), Str(<<".", ".">>),
    Str(<<"a", " ", "b">>), Str(<<" ", "a">>), Str(<<"a", "/", "b">>), Str(<<>>) }
Paths == SeqsUpTo(PathSegs, MaxSegs)

InitPath ==
  /\ pc = "Show"
  /\ call \in [op : {"display_path"}, path : Paths]
  /\ ran = NoRun
  /\ cwd = <<>> /\ cwd_shared = <<>>
  /\ line = [ev |-> "none"]
  /\ chk = NoCheck
  /\ out = <<>>
  /\ key = <<>> /\ ret = <<>> /\ called = FALSE
  /\ SessIdle

DisplayThenParse ==
  /\ pc = "Show"
  /\ \E shown \in {display_path(call.path)} :
       ran' = [shown |-> shown, parsed |-> parse_path(shown)]
  /\ pc' = "Shown"
  /\ UNCHANGED <<cwd, cwd_shared, line, chk, call, out, key, ret, called, hooks, mutex, cmds>>

NextPath == DisplayThenParse

SpecPath == InitPath /\ [][NextPath]_vars

\* a segment that is not empty and holds neither `/` nor whitespace
CleanSegment(seg) ==
  seg # <<>> /\ \A i \in 1..Len(seg) : seg[i] \notin {Ord("/"), 9, 10, 11, 12, 13, 32}

\* C29: display_path renders the root as `/` and any other path as `/` followed
\* by its segments joined with `/`; parse_path of the rendering gives the path
\* back when every segment is non-empty and holds neither `/` nor whitespace.
C29_DisplayParse ==
  pc = "Shown" =>
    /\ ran.shown = (IF Len(call.path) = 0 THEN Str(<<"/">>)
                    ELSE Str(<<"/">>) \o Joined(call.path, Str(<<"/">>)))
    /\ (\A i \in 1..Len(call.path) : CleanSegment(call.path[i])) => ran.parsed = call.path

\* [a, .., ab] is shown as /a/../ab and read back as it was
C29_Witness ==
  /\ pc = "Shown"
  /\ call.path = <<Str(<<"a">>), Str(<<".", ".">>), Str(<<"a", "b">>)>>
  /\ ran.shown = Str(<<"/", "a", "/", ".", ".", "/", "a", "b">>)
  /\ ran.parsed = call.path

\* ------------------------------------------------- claims about scan ranges
\* directory prefix ++ sub-prefix of the last scan
ScanBegin == dir_bytes(call.path) \o call.prefix.v
\* the stored pairs whose key starts with b, in key order
PairsPrefixedBy(b) == SelectSeq(SortedKVs, LAMBDA kv : StartsWith(kv.key, b))

\* C24: a scan with a sub-prefix reads from begin = directory prefix ++ sub-prefix
\* to end = successor(begin); every printed row is a pair whose key starts with
\* begin, and the first min(limit, n) of the n stored pairs with such a key are
\* all printed (begin, which starts with the directory prefix, is never all 0xFF).
C24_PrefixRange ==
  (Done("scan") /\ call.prefix.some) =>
    /\ \E i \in 1..Len(ScanBegin) : ScanBegin[i] # 255
    /\ CallRange = [begin |-> ScanBegin, end |-> strinc(ScanBegin)]
    /\ AllPairs(CallRange) = PairsPrefixedBy(ScanBegin)
    /\ \A j \in 1..Len(Rows(out)) :
         /\ Rows(out)[j].i \in 1..Len(PairsPrefixedBy(ScanBegin))
         /\ call.raw => Rows(out)[j].key = format_bytes(PairsPrefixedBy(ScanBegin)[Rows(out)[j].i].key)
    /\ \A n \in 1..Min(call.limit, Len(PairsPrefixedBy(ScanBegin))) :
         \E j \in 1..Len(Rows(out)) : Rows(out)[j].i = n

\* scan /app --prefix '\x15' --raw: the two keys that start with 15 01 15, of four
C24_Witness ==
  /\ Done("scan") /\ call.path = <<app>> /\ call.prefix = Some(<<21>>) /\ call.raw
  /\ call.limit = 2 /\ ran.runs = 1
  /\ Len(Rows(out)) = 2
  /\ Rows(out)[2].key = format_bytes(<<21, 1, 21, 7>>)

\* ------------------------------------------- claims about batch scan arguments
\* C23: a batch scan whose --prefix is malformed reports the error and does
\* nothing else: scan_path is not called, so that no transaction runs, no
\* directory is opened and neither the scan header nor a row is printed.
C23_BadPrefixAborts ==
  (pc = "Exited" /\ line.ev = "argv" /\ line.prefix.some /\ HexFails(line.prefix.v, BothX)) =>
    /\ out = <<ExitError>>
    /\ call = NoCall
    /\ ran.runs = 0 /\ ran.streamed = 0

\* `scan --prefix '\xzz'` has ended with the error alone
C23_Witness ==
  /\ pc = "Exited"
  /\ line = [ev |-> "argv", prefix |-> Some(Str(<<"\\","x","z","z">>))]
  /\ out = <<ExitError>>

\* ------------------------------------------------- specification SpecStrinc
\* strinc applied to every key over KeyBytes of at most MaxKeyLen bytes.
KeyBytes == {0, 1, 254, 255}
Keys == SeqsUpTo(KeyBytes, MaxKeyLen)
\* the byte strings the order claims range over: one byte longer than the keys
Universe == SeqsUpTo(KeyBytes, MaxKeyLen + 1)

\* no REPL runs
ReplOff ==
  /\ pc = "Off" /\ cwd = <<>> /\ cwd_shared = <<>> /\ line = [ev |-> "none"]
  /\ chk = NoCheck /\ call = NoCall /\ ran = NoRun /\ out = <<>>

InitStrinc == key \in Keys /\ ret = <<>> /\ called = FALSE /\ ReplOff /\ SessIdle

CallStrinc ==
  /\ ~called
  /\ ret' = strinc(key)
  /\ called' = TRUE
  /\ UNCHANGED key
  /\ UNCHANGED replVars
  /\ UNCHANGED sessVars

NextStrinc == CallStrinc

SpecStrinc == InitStrinc /\ [][NextStrinc]_vars

AllFF(b) == \A i \in 1..Len(b) : b[i] = 255
\* the precondition of the order claims: non-empty and not entirely 0xFF
Incrementable(b) == b # <<>> /\ ~AllFF(b)
\* s is strictly greater than every string that has b as a prefix
AboveAllPrefixedBy(s, b) == \A t \in Universe : StartsWith(t, b) => LexLess(t, s)

\* C4: for every non-empty key not entirely 0xFF, strinc(key) is strictly greater
\* than every string prefixed by key, and no smaller string is.
C4_StrincLeastUpperBound ==
  (called /\ Incrementable(key)) =>
     /\ AboveAllPrefixedBy(ret, key)
     /\ \A s \in Universe : AboveAllPrefixedBy(s, key) => LexLeq(ret, s)

C4_Witness == called /\ key = <<1, 255>> /\ ret = <<2>>

\* C5 as stated: strinc(bytes) follows every string with bytes as a prefix and
\* precedes every string that does not have bytes as a prefix.
C5_AsStated ==
  (called /\ Incrementable(key)) =>
     /\ \A t \in Universe : StartsWith(t, key) => LexLess(t, ret)
     /\ \A s \in Universe : ~StartsWith(s, key) => LexLess(ret, s)

\* C5, amended: strinc(bytes) follows every string with bytes as a prefix, and every
\* string greater than bytes that does not have bytes as a prefix is strinc(bytes)
\* or follows it (the strings smaller than bytes precede it instead).
C5_StrincSplitsKeySpace ==
  (called /\ Incrementable(key)) =>
     /\ \A t \in Universe : StartsWith(t, key) => LexLess(t, ret)
     /\ \A s \in Universe :
          ~StartsWith(s, key) => IF LexLess(key, s) THEN LexLeq(ret, s) ELSE LexLess(s, ret)

C5_Witness == called /\ key = <<0, 254>> /\ ret = <<0, 255>>

\* C6: strinc increments the last byte that is not 0xFF and drops everything after
\* it; it returns the empty string when there is no such byte (all 0xFF, or empty);
\* every byte of the result is a u8 (no 0xFF was incremented) and the result is
\* never longer than the key.
C6_StrincShape ==
  called =>
     LET nonFF == {i \in 1..Len(key) : key[i] # 255} IN
       /\ Len(ret) <= Len(key)
       /\ \A i \in 1..Len(ret) : ret[i] \in 0..255
       /\ IF nonFF = {} THEN ret = <<>>
          ELSE LET j == CHOOSE i \in nonFF : \A k \in nonFF : k <= i IN
                 /\ Len(ret) = j
                 /\ \A i \in 1..(j - 1) : ret[i] = key[i]
                 /\ ret[j] = key[j] + 1

C6_Witness == called /\ key = <<254, 255, 255>> /\ ret = <<255>>

====
